---- MODULE Spec2Model ----
(***************************************************************************)
(* The beancount grammar driver: the LALR(1) automaton that bison          *)
(* generated into src/python/beancount/parser/grammar.c, its semantic      *)
(* actions (the builder calls of every reduction), and its error recovery. *)
(* The lexer and the Python builder are outside the file: the lexer is a   *)
(* source of tokens, the builder an uninterpreted sink whose results are   *)
(* the terms <<"obj", method, arguments>>.                                 *)
(***************************************************************************)
EXTENDS Integers, Sequences, FiniteSets, TLC

(***************************************************************************)
(* Token codes returned by yylex (enum yytokentype).                       *)
(***************************************************************************)
LEX_ERROR == 258
INDENT == 259
EOL == 260
COMMENT == 261
SKIPPED == 262
PIPE == 263
ATAT == 264
AT == 265
LCURLCURL == 266
RCURLCURL == 267
LCURL == 268
RCURL == 269
EQUAL == 270
COMMA == 271
TILDE == 272
HASH == 273
ASTERISK == 274
SLASH == 275
PLUS == 276
MINUS == 277
LPAREN == 278
RPAREN == 279
FLAG == 280
TXN == 281
BALANCE == 282
OPEN == 283
CLOSE == 284
COMMODITY == 285
PAD == 286
EVENT == 287
PRICE == 288
NOTE == 289
DOCUMENT == 290
PUSHTAG == 291
POPTAG == 292
OPTION == 293
INCLUDE == 294
PLUGIN == 295
BOOL == 296
DATE == 297
ACCOUNT == 298
CURRENCY == 299
STRING_ == 300  \* STRING (a reserved word of TLA+)
NUMBER == 301
TAG == 302
LINK == 303
KEY == 304
NEGATIVE == 305

(***************************************************************************)
(* Parser tables, copied verbatim; C indexes from 0, TLA+ from 1.          *)
(***************************************************************************)
yytranslate_tab ==
  << 0, 2, 2, 2, 2, 2, 2, 2, 2, 2, 2, 2, 2, 2, 2, 2,
     2, 2, 2, 2, 2, 2, 2, 2, 2, 2, 2, 2, 2, 2, 2, 2,
     2, 2, 2, 2, 2, 2, 2, 2, 2, 2, 2, 2, 2, 2, 2, 2,
     2, 2, 2, 2, 2, 2, 2, 2, 2, 2, 2, 2, 2, 2, 2, 2,
     2, 2, 2, 2, 2, 2, 2, 2, 2, 2, 2, 2, 2, 2, 2, 2,
     2, 2, 2, 2, 2, 2, 2, 2, 2, 2, 2, 2, 2, 2, 2, 2,
     2, 2, 2, 2, 2, 2, 2, 2, 2, 2, 2, 2, 2, 2, 2, 2,
     2, 2, 2, 2, 2, 2, 2, 2, 2, 2, 2, 2, 2, 2, 2, 2,
     2, 2, 2, 2, 2, 2, 2, 2, 2, 2, 2, 2, 2, 2, 2, 2,
     2, 2, 2, 2, 2, 2, 2, 2, 2, 2, 2, 2, 2, 2, 2, 2,
     2, 2, 2, 2, 2, 2, 2, 2, 2, 2, 2, 2, 2, 2, 2, 2,
     2, 2, 2, 2, 2, 2, 2, 2, 2, 2, 2, 2, 2, 2, 2, 2,
     2, 2, 2, 2, 2, 2, 2, 2, 2, 2, 2, 2, 2, 2, 2, 2,
     2, 2, 2, 2, 2, 2, 2, 2, 2, 2, 2, 2, 2, 2, 2, 2,
     2, 2, 2, 2, 2, 2, 2, 2, 2, 2, 2, 2, 2, 2, 2, 2,
     2, 2, 2, 2, 2, 2, 2, 2, 2, 2, 2, 2, 2, 2, 2, 2,
     1, 2, 3, 4, 5, 6, 7, 8, 9, 10, 11, 12, 13, 14, 15, 16,
     17, 18, 19, 20, 21, 22, 23, 24, 25, 26, 27, 28, 29, 30, 31, 32,
     33, 34, 35, 36, 37, 38, 39, 40, 41, 42, 43, 44, 45, 46, 47, 48,
     49, 50 >>

yypact_tab ==
  << -75, -75, 95, 37, -75, -3, -75, 8, -75, -27, 1, -1, 34, 38, 128, -75,
     -75, -75, -75, -75, -75, -75, -75, -75, -75, -75, -75, -75, -75, -75, -75, -75,
     -75, -75, -75, -75, 25, 25, 40, 25, 13, -75, -75, -75, 61, 80, 84, -4,
     93, 49, 94, 96, 103, -75, -75, 136, -75, -75, 25, -75, 25, -75, 98, 104,
     25, 25, 123, 124, 98, 125, 127, -75, 2, -75, -75, -75, 98, 98, 98, -75,
     -5, 25, -75, -75, -7, -75, -75, 25, 25, 53, 25, 25, -75, 25, -75, -75,
     -75, -75, -75, -75, -75, 157, 98, 98, 98, 98, 98, -75, -75, 138, -75, -75,
     25, -75, 169, 169, -75, -75, -75, -75, -75, -75, -75, 185, -75, 86, -75, -75,
     51, 51, 169, -75, -75, 141, -75, 169, 169, 169, 169, 169, -14, -75, -75, -75,
     169, 70, -75, -75, -75, 148, -75, -75, -75, -75, -75, -75, -75, 53, 25, -75,
     20, -75, -75, 179, 72, 129, -75, 98, 98, -75, -75, -75, -12, 166, 15, -75,
     7, -75, 25, 25, 98, -75, -75, 129, 129, -75, -75, -75, 149, -75, -75, -75 >>

yydefact_tab ==
  << 2, 107, 0, 0, 106, 11, 8, 12, 97, 0, 0, 0, 0, 0, 0, 98,
     83, 99, 100, 85, 86, 92, 87, 84, 91, 88, 89, 90, 105, 101, 102, 103,
     104, 1, 10, 9, 0, 0, 0, 0, 0, 5, 4, 3, 0, 0, 0, 0,
     0, 0, 0, 0, 0, 2, 6, 0, 52, 53, 0, 94, 0, 95, 0, 2,
     0, 0, 0, 0, 0, 0, 0, 21, 0, 7, 93, 96, 0, 0, 0, 13,
     0, 0, 50, 49, 2, 2, 2, 0, 0, 0, 0, 0, 81, 0, 25, 22,
     24, 23, 2, 19, 18, 0, 0, 0, 0, 0, 0, 62, 2, 0, 55, 56,
     0, 47, 57, 58, 2, 2, 61, 2, 2, 2, 44, 26, 20, 0, 16, 17,
     14, 15, 60, 51, 2, 0, 48, 59, 79, 78, 80, 82, 2, 46, 45, 63,
     54, 2, 28, 29, 27, 0, 40, 37, 36, 38, 35, 39, 43, 41, 0, 42,
     0, 34, 33, 68, 0, 2, 69, 0, 0, 30, 76, 77, 71, 65, 0, 75,
     0, 72, 0, 0, 2, 66, 70, 2, 2, 32, 31, 64, 0, 73, 74, 67 >>

yypgoto_tab ==
  << -75, 0, -75, -36, -75, -16, -75, -75, -75, -75, 71, -75, -75, -52, -75, -75,
     -75, -75, -75, -75, -75, -75, -75, -42, -75, 16, -75, -75, -75, -75, -74, -75,
     -75, -75, -75, -75, -75, -75, -75, -75, -75, -75, -75 >>

yydefgoto_tab ==
  << -1, 113, 53, 56, 15, 89, 72, 16, 149, 141, 134, 158, 123, 114, 84, 17,
     18, 19, 112, 20, 21, 22, 23, 90, 81, 174, 175, 164, 166, 176, 177, 24,
     25, 26, 93, 27, 28, 29, 30, 31, 32, 2, 3 >>

yytable_tab ==
  << 1, 57, 34, 59, 61, 146, -64, 54, 55, 109, 94, 147, 102, 35, 103, 104,
     105, 106, 54, 55, 36, 182, 74, 183, 75, 54, 55, 184, 85, 86, 54, 55,
     -64, 180, 115, 145, 98, 33, 110, 107, 65, 76, 77, 78, 38, 108, 80, 95,
     37, 96, 97, 116, 117, 71, 119, 120, 130, 121, 60, 181, 99, 100, 101, 83,
     135, 136, 79, 137, 138, 139, 103, 104, 103, 104, 105, 106, 132, 54, 55, 39,
     144, 167, 168, 40, 111, 58, 125, 126, 127, 128, 129, 76, 77, 78, 67, -108,
     4, 118, 122, 5, 6, 7, 8, 159, 62, 103, 104, 105, 106, 189, 190, 150,
     151, 152, 153, 154, 79, 155, 163, 76, 77, 78, 161, 63, 162, 178, 179, 64,
     169, 157, 143, 9, 10, 11, 12, 13, 66, 14, 68, 69, 148, 73, 185, 186,
     79, 156, 70, 41, 82, 173, 76, 77, 78, 42, 43, 44, 45, 46, 47, 48,
     49, 50, 51, 52, 173, 172, 87, 173, 173, 88, 91, 170, 92, 133, 171, 79,
     103, 104, 105, 106, 187, 124, 131, 187, 187, 103, 104, 105, 106, 140, 145, 160,
     165, 191, 142, 0, 188 >>

yycheck_tab ==
  << 0, 37, 5, 39, 40, 19, 18, 5, 6, 16, 8, 25, 17, 5, 19, 20,
     21, 22, 5, 6, 47, 14, 58, 16, 60, 5, 6, 20, 64, 65, 5, 6,
     44, 18, 86, 49, 72, 0, 45, 44, 44, 21, 22, 23, 45, 81, 62, 45,
     47, 47, 48, 87, 88, 53, 90, 91, 108, 93, 45, 44, 76, 77, 78, 63,
     116, 117, 46, 119, 120, 121, 19, 20, 19, 20, 21, 22, 112, 5, 6, 45,
     132, 9, 10, 45, 84, 45, 102, 103, 104, 105, 106, 21, 22, 23, 45, 0,
     1, 44, 98, 4, 5, 6, 7, 145, 43, 19, 20, 21, 22, 183, 184, 41,
     42, 43, 44, 45, 46, 47, 160, 21, 22, 23, 158, 43, 160, 167, 168, 43,
     164, 145, 44, 36, 37, 38, 39, 40, 43, 42, 44, 43, 140, 5, 178, 179,
     46, 145, 43, 19, 44, 165, 21, 22, 23, 25, 26, 27, 28, 29, 30, 31,
     32, 33, 34, 35, 180, 165, 43, 183, 184, 45, 45, 42, 45, 4, 45, 46,
     19, 20, 21, 22, 180, 24, 44, 183, 184, 19, 20, 21, 22, 4, 49, 43,
     13, 44, 123, -1, 180 >>

yystos_tab ==
  << 0, 52, 92, 93, 1, 4, 5, 6, 7, 36, 37, 38, 39, 40, 42, 55,
     58, 66, 67, 68, 70, 71, 72, 73, 82, 83, 84, 86, 87, 88, 89, 90,
     91, 0, 5, 5, 47, 47, 45, 45, 45, 19, 25, 26, 27, 28, 29, 30,
     31, 32, 33, 34, 35, 53, 5, 6, 54, 54, 45, 54, 45, 54, 43, 43,
     43, 44, 43, 45, 44, 43, 43, 52, 57, 5, 54, 54, 21, 22, 23, 46,
     56, 75, 44, 52, 65, 54, 54, 43, 45, 56, 74, 45, 45, 85, 8, 45,
     47, 48, 54, 56, 56, 56, 17, 19, 20, 21, 22, 44, 54, 16, 45, 52,
     69, 52, 64, 64, 54, 54, 44, 54, 54, 54, 52, 63, 24, 56, 56, 56,
     56, 56, 64, 44, 54, 4, 61, 64, 64, 64, 64, 64, 4, 60, 61, 44,
     64, 49, 19, 25, 52, 59, 41, 42, 43, 44, 45, 47, 52, 56, 62, 74,
     43, 54, 54, 74, 78, 13, 79, 9, 10, 54, 42, 45, 52, 56, 76, 77,
     80, 81, 74, 74, 18, 44, 14, 16, 20, 54, 54, 52, 76, 81, 81, 44 >>

yyr1_tab ==
  << 0, 51, 52, 53, 53, 53, 54, 54, 55, 55, 55, 55, 55, 56, 56, 56,
     56, 56, 56, 56, 56, 57, 57, 57, 57, 57, 58, 59, 59, 59, 60, 60,
     60, 60, 61, 62, 62, 62, 62, 62, 62, 62, 62, 62, 63, 63, 63, 64,
     64, 65, 65, 65, 66, 67, 68, 69, 69, 70, 71, 72, 73, 74, 75, 75,
     76, 76, 77, 77, 78, 78, 79, 80, 80, 80, 80, 81, 81, 81, 82, 83,
     84, 85, 86, 87, 87, 87, 87, 87, 87, 87, 87, 87, 87, 88, 89, 90,
     90, 91, 91, 91, 91, 91, 91, 91, 92, 92, 92, 92, 93 >>

yyr2_tab ==
  << 0, 2, 0, 1, 1, 1, 1, 2, 1, 2, 2, 1, 1, 1, 3, 3,
     3, 3, 2, 2, 3, 1, 2, 2, 2, 2, 5, 1, 1, 1, 5, 7,
     7, 4, 4, 1, 1, 1, 1, 1, 1, 1, 1, 1, 1, 2, 2, 1,
     2, 1, 1, 3, 3, 3, 7, 1, 1, 5, 5, 6, 6, 2, 2, 4,
     1, 1, 2, 4, 1, 2, 3, 1, 1, 3, 3, 1, 1, 1, 6, 6,
     6, 1, 6, 1, 1, 1, 1, 1, 1, 1, 1, 1, 1, 4, 3, 3,
     4, 1, 1, 1, 1, 1, 1, 1, 2, 2, 2, 1, 1 >>

yytname_tab ==
  << "$end", "error", "$undefined", "LEX_ERROR", "INDENT", "EOL",
     "COMMENT", "SKIPPED", "PIPE", "ATAT", "AT", "LCURLCURL",
     "RCURLCURL", "LCURL", "RCURL", "EQUAL", "COMMA", "TILDE",
     "HASH", "ASTERISK", "SLASH", "PLUS", "MINUS", "LPAREN",
     "RPAREN", "FLAG", "TXN", "BALANCE", "OPEN", "CLOSE",
     "COMMODITY", "PAD", "EVENT", "PRICE", "NOTE", "DOCUMENT",
     "PUSHTAG", "POPTAG", "OPTION", "INCLUDE", "PLUGIN", "BOOL",
     "DATE", "ACCOUNT", "CURRENCY", "STRING", "NUMBER", "TAG",
     "LINK", "KEY", "NEGATIVE", "$accept", "empty", "txn",
     "eol", "empty_line", "number_expr", "txn_fields", "transaction", "optflag",
     "posting", "key_value", "key_value_value", "posting_or_kv_list", "key_value_list", "currency_list",
     "pushtag", "poptag", "open", "opt_booking", "close", "commodity",
     "pad", "balance", "amount", "amount_tolerance", "maybe_number", "compound_amount",
     "position", "lot_spec", "lot_comp_list", "lot_comp", "price", "event",
     "note", "filename", "document", "entry", "option", "include",
     "plugin", "directive", "declarations", "file" >>

(***************************************************************************)
(* Parser constants (#define).                                             *)
(***************************************************************************)
YYFINAL == 33
YYLAST == 196
YYNTOKENS == 51
YYNSTATES == 192
YYPACT_NINF == -75
YYEMPTY == -2
YYEOF == 0
YYTERROR == 1
YYUNDEFTOK == 2
YYMAXUTOK == 305
YYINITDEPTH == 200
YYMAXDEPTH == 10000
YYERROR_VERBOSE_ARGS_MAXIMUM == 5

yypact(s) == yypact_tab[s + 1]
yydefact(s) == yydefact_tab[s + 1]
yypgoto(k) == yypgoto_tab[k + 1]
yydefgoto(k) == yydefgoto_tab[k + 1]
yytable(i) == yytable_tab[i + 1]
yycheck(i) == yycheck_tab[i + 1]
yystos(s) == yystos_tab[s + 1]
yyr1(r) == yyr1_tab[r + 1]
yyr2(r) == yyr2_tab[r + 1]
yytname(x) == yytname_tab[x + 1]

yypact_value_is_default(n) == n = YYPACT_NINF

\* yytable_value_is_error is the constant 0 in this parser
yytable_value_is_error(n) == FALSE

YYTRANSLATE(x) ==
  IF 0 <= x /\ x <= YYMAXUTOK THEN yytranslate_tab[x + 1] ELSE YYUNDEFTOK

(***************************************************************************)
(* Semantic values (union YYSTYPE).  Every value is a tuple whose first    *)
(* element is a tag.  A builder result is the term of the call that made   *)
(* it; NULL is the failed result of a Python C-API call.                   *)
(***************************************************************************)
None == <<"None">>
NULL == <<"NULL">>
Undef == <<"undef">>
Py_True == <<"bool", TRUE>>
Py_False == <<"bool", FALSE>>
Chr(c) == <<"chr", c>>
Obj(m, a) == <<"obj", m, a>>
Pair(a, b) == <<"pair", a, b>>
Dec(p, q) == <<"num", p, q>>
Tag(v) == v[1]

Abs(x) == IF x < 0 THEN -x ELSE x
Min(a, b) == IF a < b THEN a ELSE b

RECURSIVE Gcd(_, _)
Gcd(a, b) == IF b = 0 THEN a ELSE Gcd(b, a % b)

\* the Decimal p/q with q > 0, in lowest terms
Norm(p, q) == LET g == Gcd(Abs(p), q) IN Dec(p \div g, q \div g)

(***************************************************************************)
(* The Python number protocol on Decimal operands (exact arithmetic; the   *)
(* rounding of the decimal context is outside the parser).                 *)
(***************************************************************************)
PyNumber_Add(a, b) == Norm(a[2] * b[3] + b[2] * a[3], a[3] * b[3])
PyNumber_Subtract(a, b) == Norm(a[2] * b[3] - b[2] * a[3], a[3] * b[3])
PyNumber_Multiply(a, b) == Norm(a[2] * b[2], a[3] * b[3])
PyNumber_TrueDivide(a, b) ==
  IF b[2] = 0 THEN NULL
  ELSE IF b[2] > 0 THEN Norm(a[2] * b[3], a[3] * b[2])
  ELSE Norm(-(a[2] * b[3]), a[3] * (-b[2]))
PyNumber_Negative(a) == Dec(-a[2], a[3])

VARIABLES
  yyss,            \* the state stack
  yyvs,            \* the semantic value stack
  yyls,            \* the location stack: <<first_line, last_line>>
  yystacksize,     \* allocated depth of the stacks
  yychar,          \* the lookahead token code, or YYEMPTY
  yylval,          \* semantic value of the lookahead
  yylloc,          \* location of the lookahead
  yyerrstatus,     \* tokens to shift before errors are reported again
  yynerrs,         \* number of syntax errors reported
  yyn,             \* the rule about to be reduced (at yyreduce)
  yyerror_range1,  \* yyerror_range[1]
  pc,              \* the label yyparse is at
  yyresult,        \* the value yyparse returned (-1 while running)
  yylineno,        \* the lexer's current line
  yy_firstline,    \* offset added to every reported line
  yy_filename,     \* the file name passed with every reported line
  builder,         \* the object whose methods are called
  rest,            \* tokens of the source text the lexer has yet to return
  budget,          \* chunks of source text that may still follow
  fam,             \* the family of source texts the lexer reads
  expr,            \* the expression the source text was written from
  calls,           \* the builder calls made so far, in order
  nfail,           \* how many builder calls have failed
  input,           \* history: the token codes yylex returned
  fate,            \* history: what became of each token ("S"hift, "D"iscard)
  errs,            \* history: the errors detected (yyerrlab and YYERROR),
                   \* each with the state on top of the stack
  buffer,          \* editor: the successive matches of
                   \* beancount-account-regexp in the buffer
  point,           \* editor: how many of them the search has passed
  accounts,        \* editor: the keys of the hash table accounts
  rlist,           \* editor: rlist of beancount-hash-keys
  elresult,        \* editor: the value of beancount-get-accounts
  elpc             \* editor: the form being evaluated

vars == <<yyss, yyvs, yyls, yystacksize, yychar, yylval, yylloc, yyerrstatus,
          yynerrs, yyn, yyerror_range1, pc, yyresult, yylineno, yy_firstline,
          yy_filename, builder,
          rest, budget, fam, expr, calls, nfail, input, fate, errs,
          buffer, point, accounts, rlist, elresult, elpc>>

parserVars == <<yyss, yyvs, yyls, yystacksize, yyerrstatus, yynerrs, yyn,
                yyerror_range1, pc, yyresult>>
lexVars == <<yychar, yylval, yylloc, yylineno, rest, budget, input>>
editorVars == <<buffer, point, accounts, rlist, elresult, elpc>>
envVars == <<fam, expr, editorVars>>
globalVars == <<yy_firstline, yy_filename, builder>>

\* the editor support is not running
EditorIdle ==
  /\ buffer = <<>>
  /\ point = 0
  /\ accounts = <<>>
  /\ rlist = <<>>
  /\ elresult = <<>>
  /\ elpc = "idle"

Top == yyss[Len(yyss)]
Last(s) == s[Len(s)]
Front(s, k) == SubSeq(s, 1, Len(s) - k)

\* yyvsp[i] and yylsp[i], i <= 0
vsp(i) == yyvs[Len(yyvs) + i]
lsp(i) == yyls[Len(yyls) + i]

(***************************************************************************)
(* YYLLOC_DEFAULT(yyloc, yylsp - yylen, yylen)                             *)
(***************************************************************************)
YYLLOC_DEFAULT(n) ==
  IF n > 0 THEN <<lsp(1 - n)[1], lsp(0)[2]>>
  ELSE <<lsp(0)[2], lsp(0)[2]>>

\* a faulty variant of FILE_LINE: the lexer's current line is reported
FILE_LINE_Lexer(n) == yylineno + yy_firstline

\* FILE_LINE_ARGS, without the file name
FILE_LINE(n) == YYLLOC_DEFAULT(n)[1] + yy_firstline

\* a builder call: method, the rule that made it (0: yyerror), reported line
\* (0: none) and file name, arguments, outcome, how many tokens had been
\* read by then, and the object the method was called on
Call(m, r, line, a, ok) ==
  [m |-> m, rule |-> r, line |-> line, a |-> a, ok |-> ok, seen |-> Len(input),
   file |-> IF line = 0 THEN "" ELSE yy_filename, to |-> builder]

(***************************************************************************)
(* The semantic actions (switch (yyn) in yyreduce).                        *)
(***************************************************************************)

\* a faulty variant of BuildRules: the addition of two numbers (rule 14) is
\* made by a builder call
BuildRulesWithAddition ==
  {14, 21, 22, 23, 24, 25, 26, 30, 31, 32, 33, 34, 45, 46, 48, 50, 51, 52, 53,
   54, 57, 58, 59, 60, 61, 62, 63, 66, 67, 68, 69, 70, 72, 73, 74, 78, 79,
   80, 82, 93, 94, 95, 96, 105, 108}

\* the rules whose action is a BUILDY(...) call
BuildRules ==
  {21, 22, 23, 24, 25, 26, 30, 31, 32, 33, 34, 45, 46, 48, 50, 51, 52, 53,
   54, 57, 58, 59, 60, 61, 62, 63, 66, 67, 68, 69, 70, 72, 73, 74, 78, 79,
   80, 82, 93, 94, 95, 96, 105, 108}

\* the rules whose builder call takes FILE_LINE_ARGS
FileLineRules ==
  {26, 30, 31, 32, 33, 54, 57, 58, 59, 60, 68, 69, 78, 79, 80, 82, 93, 94,
   95, 96}

\* a faulty variant of TagMethod: the two method names are exchanged
TagMethodSwapped(r) == IF r = 52 THEN "poptag" ELSE "pushtag"

\* pushtag: PUSHTAG TAG eol (52) and poptag: POPTAG TAG eol (53)
TagMethod(r) == IF r = 52 THEN "pushtag" ELSE "poptag"

\* a faulty variant of TxnFieldsMethod: the methods of the LINK and TAG
\* rules are exchanged
TxnFieldsMethodSwapped(r) ==
  CASE r = 21 -> "txn_field_new"
    [] r = 22 -> "txn_field_STRING"
    [] r = 23 -> "txn_field_TAG"
    [] r = 24 -> "txn_field_LINK"
    [] OTHER -> "txn_field_PIPE"

\* txn_fields: empty (21), txn_fields STRING (22), txn_fields LINK (23),
\* txn_fields TAG (24), txn_fields PIPE (25)
TxnFieldsMethod(r) ==
  CASE r = 21 -> "txn_field_new"
    [] r = 22 -> "txn_field_STRING"
    [] r = 23 -> "txn_field_LINK"
    [] r = 24 -> "txn_field_TAG"
    [] OTHER -> "txn_field_PIPE"

\* the method name BUILDY passes to PyObject_CallMethod
Method(r) ==
  CASE r \in 21..25 -> TxnFieldsMethod(r)
    [] r = 26 -> "transaction"
    [] r \in {30, 31, 32, 33} -> "posting"
    [] r = 34 -> "key_value"
    [] r \in {45, 46, 48, 50, 51, 72, 73, 74, 105} -> "handle_list"
    [] r \in {52, 53} -> TagMethod(r)
    [] r = 54 -> "open"
    [] r = 57 -> "close"
    [] r = 58 -> "commodity"
    [] r = 59 -> "pad"
    [] r = 60 -> "balance"
    [] r \in {61, 62, 63} -> "amount"
    [] r \in {66, 67} -> "compound_amount"
    [] r \in {68, 69} -> "position"
    [] r = 70 -> "lot_spec"
    [] r = 78 -> "price"
    [] r = 79 -> "event"
    [] r = 80 -> "note"
    [] r = 82 -> "document"
    [] r = 93 -> "option"
    [] r = 94 -> "include"
    [] r \in {95, 96} -> "plugin"
    [] r = 108 -> "store_result"
    [] OTHER -> ""

\* a faulty variant of DeclarationsArgs: rule 105 starts a fresh list at
\* every entry instead of passing the accumulated one
DeclarationsArgsFresh(r) == IF r = 105 THEN <<None, vsp(0)>> ELSE <<vsp(0)>>

\* declarations: declarations entry (105) and file: declarations (108)
DeclarationsArgs(r) == IF r = 105 THEN <<vsp(-1), vsp(0)>> ELSE <<vsp(0)>>

\* a faulty variant of PostingArgs: the price-is-total flags of the AT and
\* ATAT rules are exchanged
PostingArgsTotalSwapped(r) ==
  CASE r = 30 -> <<vsp(-2), vsp(-1), None, Py_False, vsp(-3)>>
    [] r = 31 -> <<vsp(-4), vsp(-3), vsp(-1), Py_True, vsp(-5)>>
    [] r = 32 -> <<vsp(-4), vsp(-3), vsp(-1), Py_False, vsp(-5)>>
    [] OTHER -> <<vsp(-1), None, None, Py_False, vsp(-2)>>

\* posting: INDENT optflag ACCOUNT position eol (30), ... position AT amount
\* eol (31), ... position ATAT amount eol (32), INDENT optflag ACCOUNT eol
\* (33): account, position, price, price-is-total, flag
PostingArgs(r) ==
  CASE r = 30 -> <<vsp(-2), vsp(-1), None, Py_False, vsp(-3)>>
    [] r = 31 -> <<vsp(-4), vsp(-3), vsp(-1), Py_False, vsp(-5)>>
    [] r = 32 -> <<vsp(-4), vsp(-3), vsp(-1), Py_True, vsp(-5)>>
    [] OTHER -> <<vsp(-1), None, None, Py_False, vsp(-2)>>

\* a faulty variant of PostingOrKvListArgs: a posting starts a fresh list
PostingOrKvListArgsFresh(r) ==
  IF r = 46 THEN <<None, vsp(0)>> ELSE <<vsp(-1), vsp(0)>>

\* posting_or_kv_list: posting_or_kv_list key_value (45) and
\* posting_or_kv_list posting (46)
PostingOrKvListArgs(r) == <<vsp(-1), vsp(0)>>

\* a faulty variant of KeyValueArgs: the value is taken one symbol too far
\* to the right, from eol
KeyValueArgsShifted(r) == <<vsp(-2), vsp(0)>>

\* key_value: INDENT KEY key_value_value eol (34): the key and the value
KeyValueArgs(r) == <<vsp(-2), vsp(-1)>>

\* a faulty variant of UndatedArgs: the configuration of a plugin is dropped
UndatedArgsNoConfig(r) ==
  CASE r = 93 -> <<vsp(-2), vsp(-1)>>
    [] r = 94 -> <<vsp(-1)>>
    [] r = 95 -> <<vsp(-1), None>>
    [] OTHER -> <<vsp(-2), None>>

\* option: OPTION STRING STRING eol (93), include: INCLUDE STRING eol (94),
\* plugin: PLUGIN STRING eol (95) | PLUGIN STRING STRING eol (96)
UndatedArgs(r) ==
  CASE r = 93 -> <<vsp(-2), vsp(-1)>>
    [] r = 94 -> <<vsp(-1)>>
    [] r = 95 -> <<vsp(-1), None>>
    [] OTHER -> <<vsp(-2), vsp(-1)>>

\* the arguments after the file name and line, read from the value stack
Args(r) ==
  CASE r = 21 -> <<None>>
    [] r \in {22, 23, 24} -> <<vsp(-1), vsp(0)>>
    [] r = 25 -> <<vsp(-1), None>>
    [] r = 26 -> <<vsp(-4), vsp(-3), vsp(-2), vsp(0)>>
    [] r \in 30..33 -> PostingArgs(r)
    [] r = 34 -> KeyValueArgs(r)
    [] r \in {45, 46} -> PostingOrKvListArgs(r)
    [] r = 48 -> <<vsp(-1), vsp(0)>>
    [] r \in {50, 72} -> <<None, vsp(0)>>
    [] r \in {51, 73, 74} -> <<vsp(-2), vsp(0)>>
    [] r \in {52, 53} -> <<vsp(-1)>>
    [] r = 54 -> <<vsp(-6), vsp(-4), vsp(-3), vsp(-2), vsp(0)>>
    [] r \in {57, 58} -> <<vsp(-4), vsp(-2), vsp(0)>>
    [] r \in {59, 78, 79, 80, 82} -> <<vsp(-5), vsp(-3), vsp(-2), vsp(0)>>
    [] r = 60 -> <<vsp(-5), vsp(-3), vsp(-2)[2], vsp(-2)[3], vsp(0)>>
    [] r \in {61, 62} -> <<vsp(-1), vsp(0)>>
    [] r = 63 -> <<vsp(-3), vsp(0)>>
    [] r = 66 -> <<vsp(-1), None, vsp(0)>>
    [] r = 67 -> <<vsp(-3), vsp(-1), vsp(0)>>
    [] r = 68 -> <<vsp(0), None>>
    [] r = 69 -> <<vsp(-1), vsp(0)>>
    [] r = 70 -> <<vsp(-1)>>
    [] r \in 93..96 -> UndatedArgs(r)
    [] r \in {105, 108} -> DeclarationsArgs(r)
    [] OTHER -> <<>>

\* a faulty variant of BuiltValue: the tolerance of rule 63 is dropped
BuiltValueNoTolerance(r, target) ==
  CASE r \in {62, 63} -> Pair(target, None)
    [] OTHER -> target

\* $$ of a rule whose BUILDY call returned target
BuiltValue(r, target) ==
  CASE r = 62 -> Pair(target, None)
    [] r = 63 -> Pair(target, vsp(-1))
    [] OTHER -> target

\* a faulty variant of NumberExprValue: the operands of the subtraction are
\* exchanged
NumberExprValueSwapped(r) ==
  CASE r = 14 -> PyNumber_Add(vsp(-2), vsp(0))
    [] r = 15 -> PyNumber_Subtract(vsp(0), vsp(-2))
    [] r = 16 -> PyNumber_Multiply(vsp(-2), vsp(0))
    [] r = 17 -> PyNumber_TrueDivide(vsp(-2), vsp(0))
    [] r = 18 -> PyNumber_Negative(vsp(0))
    [] r = 20 -> vsp(-1)
    [] OTHER -> vsp(0)

\* a faulty variant of NumberExprValue: the parenthesised expression takes
\* the value of its last symbol, the closing parenthesis
NumberExprValueParenLast(r) ==
  CASE r = 14 -> PyNumber_Add(vsp(-2), vsp(0))
    [] r = 15 -> PyNumber_Subtract(vsp(-2), vsp(0))
    [] r = 16 -> PyNumber_Multiply(vsp(-2), vsp(0))
    [] r = 17 -> PyNumber_TrueDivide(vsp(-2), vsp(0))
    [] r = 18 -> PyNumber_Negative(vsp(0))
    [] OTHER -> vsp(0)

\* $$ of the number_expr rules: NUMBER, + - * /, unary - +, parentheses
NumberExprValue(r) ==
  CASE r = 14 -> PyNumber_Add(vsp(-2), vsp(0))
    [] r = 15 -> PyNumber_Subtract(vsp(-2), vsp(0))
    [] r = 16 -> PyNumber_Multiply(vsp(-2), vsp(0))
    [] r = 17 -> PyNumber_TrueDivide(vsp(-2), vsp(0))
    [] r = 18 -> PyNumber_Negative(vsp(0))
    [] r = 20 -> vsp(-1)
    [] OTHER -> vsp(0)

\* a faulty variant of DeclarationsValue: the error rule starts the list of
\* declarations afresh
DeclarationsValueReset(r) == IF r \in {106, 107} THEN None ELSE vsp(-1)

\* a faulty variant of DeclarationsValue: the empty rule has no action and
\* leaves $$ unset
DeclarationsValueUnset(r) == IF r = 107 THEN Undef ELSE vsp(-1)

\* a faulty variant of DeclarationsValue: rules 104 and 106 take the value
\* of their last symbol instead of the accumulated list
DeclarationsValueLast(r) == IF r = 107 THEN None ELSE vsp(0)

\* $$ of declarations: declarations directive (104), declarations error
\* (106) and the empty rule (107)
DeclarationsValue(r) == IF r = 107 THEN None ELSE vsp(-1)

\* a faulty variant of TxnValue: every marker gives the flag '*'
TxnValueAlwaysStar(r) == Chr("*")

\* $$ of txn: TXN (3), FLAG (4), ASTERISK (5)
TxnValue(r) == IF r = 4 THEN vsp(0) ELSE Chr("*")

\* $$ of a rule that calls no builder method; a rule without an action
\* keeps yyval = yyvsp[1-yylen], which for an empty rule is a stale slot
PlainValue(r) ==
  CASE r \in {3, 4, 5} -> TxnValue(r)
    [] r = 28 -> Chr("*")
    [] r \in {42, 55, 65, 75, 76, 77, 92} -> vsp(0)
    [] r \in 13..20 -> NumberExprValue(r)
    [] r = 27 -> Chr("")
    [] r \in {43, 44, 47, 49, 56, 64, 71} -> None
    [] r \in {104, 106, 107} -> DeclarationsValue(r)
    [] OTHER -> IF yyr2(r) > 0 THEN vsp(1 - yyr2(r)) ELSE Undef

\* a NULL operand reaches the number protocol or Py_DECREF: the process dies
Crashes(r) ==
  \/ r \in {14, 15, 16, 17} /\ (Tag(vsp(-2)) = "NULL" \/ Tag(vsp(0)) = "NULL")
  \/ r = 18 /\ Tag(vsp(0)) = "NULL"
  \/ r \in BuildRules /\ \E i \in 1..Len(Args(r)) : Tag(Args(r)[i]) = "NULL"

(***************************************************************************)
(* yysyntax_error: the unexpected token and, when there are at most four,  *)
(* the tokens the state would have accepted.                               *)
(***************************************************************************)
\* a faulty variant of yysyntax_error: the expected tokens are never listed
yysyntax_error_terse(state, yytoken) ==
  IF yytoken = YYEMPTY THEN <<"syntax error", "", <<>>>>
  ELSE <<"syntax error", yytname(yytoken), <<>>>>

\* the message as <<text, unexpected token, expected tokens>>
yysyntax_error(state, yytoken) ==
  IF yytoken = YYEMPTY THEN <<"syntax error", "", <<>>>>
  ELSE
    LET n == yypact(state)
        yyxbegin == IF n < 0 THEN -n ELSE 0
        yychecklim == YYLAST - n + 1
        yyxend == IF yychecklim < YYNTOKENS THEN yychecklim ELSE YYNTOKENS
        cand == SelectSeq([i \in 1..(yyxend - yyxbegin) |-> yyxbegin + i - 1],
                          LAMBDA x : /\ yycheck(x + n) = x
                                     /\ x # YYTERROR
                                     /\ ~ yytable_value_is_error(yytable(x + n)))
        expected == IF yypact_value_is_default(n) THEN <<>>
                    ELSE IF Len(cand) >= YYERROR_VERBOSE_ARGS_MAXIMUM THEN <<>>
                    ELSE [i \in 1..Len(cand) |-> yytname(cand[i])]
    IN <<"syntax error", yytname(yytoken), expected>>

\* a faulty variant of MentionsLexError: only the expected tokens are looked
\* at, not the unexpected one
MentionsLexErrorExpectedOnly(msg) ==
  \E i \in 1..Len(msg[3]) : msg[3][i] = "LEX_ERROR"

\* a faulty variant of MentionsLexError: lex errors are not recognised
MentionsLexErrorNever(msg) == FALSE

\* strstr(message, "LEX_ERROR") != NULL
MentionsLexError(msg) ==
  \/ msg[2] = "LEX_ERROR"
  \/ \E i \in 1..Len(msg[3]) : msg[3][i] = "LEX_ERROR"

\* yyerror(message): the calls list after it
yyerror(msg, cl) ==
  IF MentionsLexError(msg) THEN cl
  ELSE Append(cl, Call("build_grammar_error", 0, yylineno + yy_firstline,
                       <<msg>>, TRUE))

\* a faulty variant of yynewstate: the stacks are doubled without a limit
yynewstateUnlimited(ss, vs, ls, s, v, l, cl) ==
  LET ss1 == Append(ss, s)
      full == Len(ss1) >= yystacksize
  IN /\ yyss' = ss1
     /\ yyvs' = Append(vs, v)
     /\ yyls' = Append(ls, l)
     /\ calls' = cl
     /\ yystacksize' = IF full THEN 2 * yystacksize ELSE yystacksize
     /\ IF s = YYFINAL
        THEN pc' = "done" /\ yyresult' = 0
        ELSE pc' = "yybackup" /\ UNCHANGED yyresult

(***************************************************************************)
(* yynewstate / yysetstate: push the state, grow the stacks when they are  *)
(* full, accept in the final state.                                        *)
(***************************************************************************)
yynewstate(ss, vs, ls, s, v, l, cl) ==
  LET ss1 == Append(ss, s)
      full == Len(ss1) >= yystacksize
      grown == Min(2 * yystacksize, YYMAXDEPTH)
  IN /\ yyss' = ss1
     /\ yyvs' = Append(vs, v)
     /\ yyls' = Append(ls, l)
     /\ IF full /\ YYMAXDEPTH <= yystacksize
        THEN \* yyexhaustedlab
             /\ calls' = yyerror(<<"memory exhausted", "", <<>>>>, cl)
             /\ yyresult' = 2
             /\ pc' = "done"
             /\ UNCHANGED yystacksize
        ELSE /\ calls' = cl
             /\ yystacksize' = IF full THEN grown ELSE yystacksize
             /\ IF full /\ Len(ss1) >= grown
                THEN pc' = "done" /\ yyresult' = 1
                ELSE IF s = YYFINAL
                THEN pc' = "done" /\ yyresult' = 0
                ELSE pc' = "yybackup" /\ UNCHANGED yyresult

(***************************************************************************)
(* The lexer, seen from the parser: a source of tokens.  A token of the    *)
(* source text is <<code, value>>; a token without a value of its own is   *)
(* identified by its position in the text.                                 *)
(***************************************************************************)
T(c) == <<c, None>>
N(p, q) == <<NUMBER, Dec(p, q)>>
F(c) == <<FLAG, Chr(c)>>

LexVal(tok, pos) == IF Tag(tok[2]) = "None" THEN <<"tok", tok[1], pos>> ELSE tok[2]

\* bounds of the source texts: lines of a file, lines of a file parsed with
\* a builder that may fail, tokens of a blank file, lines of a file with tag
\* directives, operators of a number expression
MaxChunks == 3
MaxFailChunks == 2
MaxBlank == 4
MaxTagChunks == 6
MaxOps == 2

OpenLine == <<T(DATE), T(OPEN), T(ACCOUNT), T(CURRENCY), T(EOL)>>
CloseLine == <<T(DATE), T(CLOSE), T(ACCOUNT), T(EOL)>>
TxnLine == <<T(DATE), T(TXN), T(STRING_), T(EOL)>>
PostingLine == <<T(INDENT), T(ACCOUNT), T(EOL)>>
BadLine == <<T(DATE), T(COMMA), T(CURRENCY), T(EOL)>>
ShortBadLine == <<T(DATE), T(EOL)>>
BadResyncLine == <<T(DATE), T(COMMA), T(DATE), T(CLOSE), T(ACCOUNT), T(EOL)>>
LexErrorLine == <<T(DATE), T(LEX_ERROR), T(EOL)>>
PushLine == <<T(PUSHTAG), T(TAG), T(EOL)>>
PopLine == <<T(POPTAG), T(TAG), T(EOL)>>

MainChunks ==
  { OpenLine, CloseLine, TxnLine, PostingLine,
    BadLine, ShortBadLine, BadResyncLine, LexErrorLine }

BlankChunks ==
  { <<T(EOL)>>, <<T(COMMENT)>>, <<T(INDENT)>>, <<T(SKIPPED)>>,
    <<T(ACCOUNT)>>, CloseLine }

TagChunks == { PushLine, PopLine, TxnLine, PostingLine }

\* a transaction header, written piece by piece: DATE and the txn marker,
\* then up to MaxFields header fields, then EOL; the text may also stop
\* anywhere before
MaxFields == 3

TxnStarts == { <<T(DATE), T(TXN)>>, <<T(DATE), T(ASTERISK)>>, <<T(DATE), F("!")>> }
FieldTokens == {STRING_, TAG, LINK, PIPE}

HeaderChunks ==
  IF input = <<>> THEN TxnStarts
  ELSE IF \E i \in 1..Len(input) : input[i] = EOL THEN {}
  ELSE {<<T(EOL)>>} \cup
       (IF Len(input) - 2 < MaxFields
        THEN {<<T(c)>> : c \in FieldTokens} ELSE {})

\* a token of the source text by its code alone
Tok(c) == IF c = NUMBER THEN N(2, 1) ELSE IF c = FLAG THEN F("!") ELSE T(c)

\* every token the lexer can return except INDENT
NonIndentTokens == (LEX_ERROR..KEY) \ {INDENT}

\* a transaction written line by line: a header line, then up to MaxLines
\* indented lines (postings and metadata), then possibly one token that is
\* not INDENT, or an indented line that is neither a posting nor metadata
MaxLines == 2

BlockHeaders ==
  { s \o h \o <<T(EOL)>> :
      s \in TxnStarts,
      h \in { <<>>, <<T(STRING_)>>, <<T(STRING_), T(STRING_), T(TAG)>> } }

BarePostingLine == <<T(INDENT), T(ACCOUNT), T(EOL)>>
AmountPostingLine == <<T(INDENT), T(ACCOUNT), N(2, 1), T(CURRENCY), T(EOL)>>
KeyValueLine == <<T(INDENT), T(KEY), T(STRING_), T(EOL)>>
IndentedBlankLine == <<T(INDENT), T(EOL)>>
IndentedJunkLine == <<T(INDENT), T(COMMA), T(EOL)>>

\* the block has been closed by a token that is not INDENT or broken by an
\* indented line that is neither a posting nor metadata
BlockEnded ==
  \E i \in 2..Len(input) :
     \/ input[i - 1] = EOL /\ input[i] # INDENT
     \/ input[i - 1] = INDENT /\ input[i] \in {EOL, COMMA}

BlockChunks ==
  IF input = <<>> THEN BlockHeaders
  ELSE IF BlockEnded THEN {}
  ELSE {<<Tok(c)>> : c \in NonIndentTokens}
       \cup {IndentedBlankLine, IndentedJunkLine}
       \cup (IF Len(SelectSeq(input, LAMBDA c : c = INDENT)) < MaxLines
             THEN {BarePostingLine, AmountPostingLine, KeyValueLine}
             ELSE {})

\* postings of every shape under one transaction header: an optional flag,
\* the account, then nothing, an amount, an amount with a cost, each with
\* or without a price annotation; and price annotations without an amount
MaxPostings == 1

PostingHeader == <<T(DATE), T(TXN), T(STRING_), T(EOL)>>
PostingFlags == { <<>>, <<T(ASTERISK)>>, <<F("!")>> }
PostingAmount == <<N(2, 1), T(CURRENCY)>>
PostingCost == <<T(LCURL), N(3, 1), T(CURRENCY), T(RCURL)>>
PostingPrices == { <<T(AT)>> \o PostingAmount, <<T(ATAT)>> \o PostingAmount }
PostingBodies ==
  { <<>>, PostingAmount, PostingAmount \o PostingCost }
  \cup { PostingAmount \o p : p \in PostingPrices }
  \cup { PostingAmount \o PostingCost \o p : p \in PostingPrices }
  \cup PostingPrices
PostingLines ==
  { <<T(INDENT)>> \o f \o <<T(ACCOUNT)>> \o b \o <<T(EOL)>> :
      f \in PostingFlags, b \in PostingBodies }

PostingChunks ==
  IF input = <<>> THEN {PostingHeader}
  ELSE IF Len(SelectSeq(input, LAMBDA c : c = INDENT)) < MaxPostings
  THEN PostingLines ELSE {}

\* a posting with a cost specification, written piece by piece: the
\* posting up to the opening brace, then up to MaxComps components with a
\* separator between two of them, then the closing brace and EOL
MaxComps == 2

CostStarts ==
  { PostingHeader \o <<T(INDENT), T(ACCOUNT), N(2, 1), T(CURRENCY), T(b)>> :
      b \in {LCURL, LCURLCURL} }
CostComps ==
  { <<N(3, 1), T(CURRENCY)>>,
    <<N(3, 1), T(SLASH), N(2, 1), T(CURRENCY)>>,
    <<N(3, 1), T(HASH), N(2, 1), T(CURRENCY)>>,
    <<T(DATE)>>, <<T(STRING_)>>, <<T(ASTERISK)>> }
CostSeparators == { <<T(COMMA)>>, <<T(SLASH)>> }
CostEnds == { <<T(RCURL), T(EOL)>>, <<T(RCURLCURL), T(EOL)>> }

CostChunks ==
  IF input = <<>> THEN CostStarts
  ELSE IF Last(input) = EOL THEN {}
  ELSE IF Last(input) \in {LCURL, LCURLCURL, COMMA, SLASH}
  THEN CostComps \cup CostEnds
  ELSE CostSeparators \cup CostEnds

\* balance directives: the number is 1234 or -3, the tolerance absent,
\* 0.02 or 2 * 3; and two malformed ones
MaxBalances == 2

BalanceNumbers == { <<N(1234, 1)>>, <<T(MINUS), N(3, 1)>> }
BalanceTolerances ==
  { <<>>, <<T(TILDE), N(1, 50)>>, <<T(TILDE), N(2, 1), T(ASTERISK), N(3, 1)>> }
BalanceLines ==
  { <<T(DATE), T(BALANCE), T(ACCOUNT)>> \o n \o t \o <<T(CURRENCY), T(EOL)>> :
      n \in BalanceNumbers, t \in BalanceTolerances }
  \cup { <<T(DATE), T(BALANCE), T(ACCOUNT), N(2, 1), T(TILDE), T(CURRENCY), T(EOL)>>,
         <<T(DATE), T(BALANCE), T(ACCOUNT), T(CURRENCY), T(EOL)>> }

\* metadata lines under an open directive or a transaction header: INDENT
\* KEY, a value, EOL, where the value is nothing, any one token, or a few
\* tokens
MaxMeta == 1

MetaHeaders ==
  { <<T(DATE), T(OPEN), T(ACCOUNT), T(EOL)>>, <<T(DATE), T(TXN), T(EOL)>> }
MetaValues ==
  { <<Tok(c)>> : c \in (LEX_ERROR..KEY) \ {EOL, COMMENT} }
  \cup { <<>>,
         <<T(MINUS), N(3, 1)>>,
         <<N(2, 1), T(PLUS), N(3, 1)>>,
         <<N(2, 1), T(CURRENCY)>>,
         <<T(MINUS), N(3, 1), T(CURRENCY)>>,
         <<N(2, 1), T(PLUS), N(3, 1), T(CURRENCY)>>,
         <<T(STRING_), T(STRING_)>>,
         <<N(2, 1), N(2, 1)>>,
         <<T(CURRENCY), N(2, 1)>>,
         <<N(2, 1), T(CURRENCY), T(CURRENCY)>> }
MetaLines == { <<T(INDENT), T(KEY)>> \o v \o <<T(EOL)>> : v \in MetaValues }

MetaChunks ==
  IF input = <<>> THEN MetaHeaders
  ELSE IF Len(SelectSeq(input, LAMBDA c : c = KEY)) < MaxMeta
  THEN MetaLines ELSE {}

\* a file of up to MaxDirs lines, each a directive of some kind, a posting,
\* a metadata line or a blank line
MaxDirs == 2

\* the keywords of the query and custom directives: the lexer returns them
\* as tokens, and the parser's token numbers end at YYMAXUTOK
QUERY == YYMAXUTOK + 1
CUSTOM == YYMAXUTOK + 2

QueryLine == <<T(DATE), T(QUERY), T(STRING_), T(STRING_), T(EOL)>>
CustomLine == <<T(DATE), T(CUSTOM), T(STRING_), T(EOL)>>
CommodityLine == <<T(DATE), T(COMMODITY), T(CURRENCY), T(EOL)>>
PadLine == <<T(DATE), T(PAD), T(ACCOUNT), T(ACCOUNT), T(EOL)>>
BalanceLine == <<T(DATE), T(BALANCE), T(ACCOUNT), N(2, 1), T(CURRENCY), T(EOL)>>
PriceDirLine == <<T(DATE), T(PRICE), T(CURRENCY), N(2, 1), T(CURRENCY), T(EOL)>>
EventLine == <<T(DATE), T(EVENT), T(STRING_), T(STRING_), T(EOL)>>
NoteLine == <<T(DATE), T(NOTE), T(ACCOUNT), T(STRING_), T(EOL)>>
DocumentLine == <<T(DATE), T(DOCUMENT), T(ACCOUNT), T(STRING_), T(EOL)>>
OptionLine == <<T(OPTION), T(STRING_), T(STRING_), T(EOL)>>
IncludeLine == <<T(INCLUDE), T(STRING_), T(EOL)>>
PluginLine == <<T(PLUGIN), T(STRING_), T(EOL)>>
PluginConfigLine == <<T(PLUGIN), T(STRING_), T(STRING_), T(EOL)>>
PositionLine == <<T(INDENT), T(ACCOUNT), N(2, 1), T(CURRENCY), T(EOL)>>
MetaLine == <<T(INDENT), T(KEY), T(STRING_), T(EOL)>>

DatedLines ==
  { OpenLine, CloseLine, CommodityLine, PadLine, BalanceLine, PriceDirLine,
    EventLine, NoteLine, DocumentLine, TxnLine, QueryLine, CustomLine }
UndatedLines == { OptionLine, IncludeLine, PluginLine, PluginConfigLine }

DirChunks ==
  IF Len(SelectSeq(input, LAMBDA c : c = EOL)) < MaxDirs
  THEN DatedLines \cup UndatedLines \cup {PositionLine, MetaLine, <<T(EOL)>>}
  ELSE {}

\* enum yytokentype of grammar.h: the token names in the order of their
\* codes, the first of which is HeaderFirst
HeaderFirst == 258
HeaderNames ==
  << "ERROR", "INDENT", "EOL", "COMMENT", "SKIPPED", "PIPE", "ATAT", "AT",
     "LCURLCURL", "RCURLCURL", "LCURL", "RCURL", "EQUAL", "COMMA", "SLASH",
     "PLUS", "FLAG", "TXN", "BALANCE", "OPEN", "CLOSE", "PAD", "EVENT",
     "PRICE", "NOTE", "DOCUMENT", "PUSHTAG", "POPTAG", "OPTION", "PLUGIN",
     "DATE", "ACCOUNT", "CURRENCY", "STRING", "NUMBER", "TAG", "LINK", "KEY" >>
HeaderCode(nm) ==
  HeaderFirst - 1 + (CHOOSE i \in 1..Len(HeaderNames) : HeaderNames[i] = nm)
HeaderName(code) == HeaderNames[code - HeaderFirst + 1]

\* a token as a lexer compiled against grammar.h returns it
HeaderTok(nm) == <<HeaderCode(nm), IF nm = "NUMBER" THEN Dec(2, 1) ELSE None>>

\* lines of such a lexer, up to MaxLexerLines of them in a file
MaxLexerLines == 2
LexerLines ==
  { <<HeaderTok("DATE"), HeaderTok("OPEN"), HeaderTok("ACCOUNT"), HeaderTok("EOL")>>,
    <<HeaderTok("DATE"), HeaderTok("PRICE"), HeaderTok("CURRENCY"), HeaderTok("NUMBER"), HeaderTok("CURRENCY"),
      HeaderTok("EOL")>>,
    <<HeaderTok("DATE"), HeaderTok("TXN"), HeaderTok("STRING"), HeaderTok("EOL")>>,
    <<HeaderTok("INDENT"), HeaderTok("ACCOUNT"), HeaderTok("NUMBER"), HeaderTok("CURRENCY"), HeaderTok("EOL")>>,
    <<HeaderTok("OPTION"), HeaderTok("STRING"), HeaderTok("STRING"), HeaderTok("EOL")>>,
    <<HeaderTok("COMMENT"), HeaderTok("EOL")>>,
    <<HeaderTok("EOL")>> }

\* a dated directive followed by up to MaxRecover indented lines, some of
\* them broken: a line that is neither a posting nor metadata, a posting
\* with a stray token after its account, metadata with an illegal value
MaxRecover == 3

RecoverHeaders == { TxnLine, OpenLine, CommodityLine, NoteLine }
BrokenPostingLine == <<T(INDENT), T(ACCOUNT), T(COMMA), T(EOL)>>
BrokenMetaLine == <<T(INDENT), T(KEY), T(LEX_ERROR), T(EOL)>>
RecoverLines ==
  { BarePostingLine, AmountPostingLine, KeyValueLine,
    IndentedJunkLine, BrokenPostingLine, BrokenMetaLine }

RecoverChunks ==
  IF input = <<>> THEN RecoverHeaders
  ELSE IF Len(SelectSeq(input, LAMBDA c : c = INDENT)) < MaxRecover
  THEN RecoverLines ELSE {}

Chunks(f) ==
  CASE f \in {"main", "fail", "parallel"} -> MainChunks
    [] f = "dirs" -> DirChunks
    [] f = "meta" -> MetaChunks
    [] f = "recover" -> RecoverChunks
    [] f = "lexer" -> LexerLines
    [] f \in {"balance", "balancefail"} -> BalanceLines
    [] f = "cost" -> CostChunks
    [] f = "posting" -> PostingChunks
    [] f = "block" -> BlockChunks
    [] f = "blank" -> BlankChunks
    [] f = "tags" -> TagChunks
    [] f = "header" -> HeaderChunks
    [] OTHER -> {}

yylex ==
  /\ pc = "yybackup"
  /\ ~ yypact_value_is_default(yypact(Top))
  /\ yychar = YYEMPTY
  /\ \E chunk \in (IF Len(rest) > 0 THEN {rest}
                   ELSE IF budget > 0 THEN Chunks(fam) \cup {<<>>}
                   ELSE {<<>>}) :
       IF Len(chunk) = 0
       THEN /\ yychar' = YYEOF
            /\ UNCHANGED <<yylval, yylloc, yylineno, rest, budget, input>>
       ELSE LET tok == Head(chunk)
                line == IF Len(input) > 0 /\ Last(input) = EOL
                        THEN yylineno + 1 ELSE yylineno
            IN /\ yychar' = tok[1]
               /\ yylval' = LexVal(tok, Len(input) + 1)
               /\ yylloc' = <<line, line>>
               /\ yylineno' = line
               /\ rest' = Tail(chunk)
               /\ budget' = IF Len(rest) > 0 THEN budget ELSE budget - 1
               /\ input' = Append(input, tok[1])
  /\ UNCHANGED <<parserVars, envVars, globalVars, calls, nfail, fate, errs>>

(***************************************************************************)
(* yybackup and yydefault: decide what to do in the current state.         *)
(***************************************************************************)
\* history: the number of tokens shifted so far
NShift == Len(SelectSeq(fate, LAMBDA x : x = "S"))

Goto_yyerrlab ==
  /\ pc' = "yyerrlab"
  /\ UNCHANGED <<yyss, yyvs, yyls, yystacksize, yyerrstatus, yynerrs, yyn,
                 yyerror_range1, yyresult, lexVars, envVars, globalVars, calls, nfail,
                 fate, errs>>

Goto_yyreduce(r) ==
  /\ pc' = "yyreduce"
  /\ yyn' = r
  /\ UNCHANGED <<yyss, yyvs, yyls, yystacksize, yyerrstatus, yynerrs,
                 yyerror_range1, yyresult, lexVars, envVars, globalVars, calls, nfail,
                 fate, errs>>

Goto_yydefault ==
  IF yydefact(Top) = 0 THEN Goto_yyerrlab ELSE Goto_yyreduce(yydefact(Top))

\* a faulty variant of Shift: the first token shifted ends the recovery
ShiftEndingRecovery(s) ==
  /\ yyerrstatus' = 0
  /\ yychar' = YYEMPTY
  /\ yynewstate(yyss, yyvs, yyls, s, yylval, yylloc, calls)
  /\ fate' = IF yychar = YYEOF THEN fate ELSE Append(fate, "S")
  /\ UNCHANGED <<yynerrs, yyn, yyerror_range1, yylval, yylloc, yylineno,
                 rest, budget, input, envVars, globalVars, nfail, errs>>

\* a faulty variant of Shift: yyerrstatus is not counted down
ShiftKeepingStatus(s) ==
  /\ yyerrstatus' = yyerrstatus
  /\ yychar' = YYEMPTY
  /\ yynewstate(yyss, yyvs, yyls, s, yylval, yylloc, calls)
  /\ fate' = IF yychar = YYEOF THEN fate ELSE Append(fate, "S")
  /\ UNCHANGED <<yynerrs, yyn, yyerror_range1, yylval, yylloc, yylineno,
                 rest, budget, input, envVars, globalVars, nfail, errs>>

Shift(s) ==
  /\ yyerrstatus' = IF yyerrstatus > 0 THEN yyerrstatus - 1 ELSE yyerrstatus
  /\ yychar' = YYEMPTY
  /\ yynewstate(yyss, yyvs, yyls, s, yylval, yylloc, calls)
  /\ fate' = IF yychar = YYEOF THEN fate ELSE Append(fate, "S")
  /\ UNCHANGED <<yynerrs, yyn, yyerror_range1, yylval, yylloc, yylineno,
                 rest, budget, input, envVars, globalVars, nfail, errs>>

yybackup ==
  /\ pc = "yybackup"
  /\ LET n0 == yypact(Top)
     IN IF yypact_value_is_default(n0) THEN Goto_yydefault
        ELSE /\ yychar # YYEMPTY
             /\ LET yytoken == IF yychar <= YYEOF THEN YYEOF
                               ELSE YYTRANSLATE(yychar)
                    n1 == n0 + yytoken
                IN IF n1 < 0 \/ YYLAST < n1 \/ yycheck(n1) # yytoken
                   THEN Goto_yydefault
                   ELSE IF yytable(n1) <= 0
                   THEN IF yytable_value_is_error(yytable(n1))
                        THEN Goto_yyerrlab
                        ELSE Goto_yyreduce(-yytable(n1))
                   ELSE Shift(yytable(n1))

(***************************************************************************)
(* yyreduce: run the rule's action, then pop its right-hand side and push  *)
(* the result; a failed builder call (BUILDY) records the exception and    *)
(* raises YYERROR (yyerrorlab).                                            *)
(***************************************************************************)
MaxFail == 1

\* the families of source texts in which builder calls are let fail
FailFamilies == {"fail", "recover", "balancefail"}

\* PyObject_CallMethod on the builder returns an object or NULL
BuilderOutcomes(r) ==
  IF r \in BuildRules /\ nfail < MaxFail /\ fam \in FailFamilies
  THEN {TRUE, FALSE} ELSE {TRUE}

\* the families of source texts parsed while another parse runs in another
\* thread
ParallelFamilies == {"parallel"}

\* what the caller of the other parse stores in yy_firstline, yy_filename
\* and builder before it calls yyparse
OtherGlobals == <<7, "b.beancount", "b">>

\* PyObject_CallMethod runs Python code, during which the interpreter may
\* switch to the thread of the other parse: when the call returns, the
\* globals hold what they held before or what the other parse has stored
OtherParse(r) ==
  IF fam \in ParallelFamilies /\ r \in BuildRules /\ builder # OtherGlobals[3]
  THEN \/ UNCHANGED globalVars
       \/ /\ yy_firstline' = OtherGlobals[1]
          /\ yy_filename' = OtherGlobals[2]
          /\ builder' = OtherGlobals[3]
  ELSE UNCHANGED globalVars

\* a faulty variant of PreCalls: the deprecated separator is not reported
PreCallsNone(r) == <<>>

\* rule 74 reports the deprecated separator before its BUILDY call
PreCalls(r) ==
  IF r = 74
  THEN <<Call("build_grammar_error", r, yylineno + yy_firstline,
              <<"Usage of slash as cost separate is deprecated (/)">>, TRUE)>>
  ELSE <<>>

BuilderCall(r, ok) ==
  Call(Method(r), r, IF r \in FileLineRules THEN FILE_LINE(yyr2(r)) ELSE 0,
       Args(r), ok)

\* a faulty variant of build_grammar_error_from_exception: the error is
\* stamped with the first line of the construct whose call failed
build_grammar_error_at_construct(r) ==
  Call("build_grammar_error", r, FILE_LINE(yyr2(r)),
       <<"exception", Method(r)>>, TRUE)

\* the exception of the failed call of rule r is recorded as an error at the
\* lexer's current line
build_grammar_error_from_exception(r) ==
  Call("build_grammar_error", r, yylineno + yy_firstline,
       <<"exception", Method(r)>>, TRUE)

\* the state to go to after reducing to lhs with state s on top
GotoState(lhs, s) ==
  LET g == yypgoto(lhs - YYNTOKENS) + s
  IN IF 0 <= g /\ g <= YYLAST /\ yycheck(g) = s
     THEN yytable(g) ELSE yydefgoto(lhs - YYNTOKENS)

ReduceOk(r) ==
  LET yylen == yyr2(r)
      yyval == IF r \in BuildRules
               THEN BuiltValue(r, Obj(Method(r), Args(r)))
               ELSE PlainValue(r)
      cl == calls \o PreCalls(r) \o
            (IF r \in BuildRules THEN <<BuilderCall(r, TRUE)>> ELSE <<>>)
      ss == Front(yyss, yylen)
  IN /\ yynewstate(ss, Front(yyvs, yylen), Front(yyls, yylen),
                   GotoState(yyr1(r), Last(ss)), yyval,
                   YYLLOC_DEFAULT(yylen), cl)
     /\ yyn' = 0
     /\ OtherParse(r)
     /\ UNCHANGED <<yyerrstatus, yynerrs, yyerror_range1, lexVars, envVars,
                    nfail, fate, errs>>

\* build_grammar_error_from_exception(); YYERROR
ReduceFail(r) ==
  LET yylen == yyr2(r)
  IN /\ calls' = calls \o PreCalls(r) \o
                 << BuilderCall(r, FALSE),
                    build_grammar_error_from_exception(r) >>
     /\ nfail' = nfail + 1
     /\ errs' = Append(errs, [kind |-> "builder", rule |-> r,
                              pos |-> Len(input), line |-> yylineno,
                              tok |-> yychar, status |-> yyerrstatus,
                              nshift |-> NShift, state |-> Top,
                              call |-> Len(calls) + Len(PreCalls(r)) + 2])
     /\ yyerror_range1' = IF yylen > 0 THEN lsp(1 - yylen) ELSE <<0, 0>>
     /\ yyss' = Front(yyss, yylen)
     /\ yyvs' = Front(yyvs, yylen)
     /\ yyls' = Front(yyls, yylen)
     /\ yyn' = 0
     /\ pc' = "yyerrlab1"
     /\ UNCHANGED <<yystacksize, yyerrstatus, yynerrs, yyresult, lexVars,
                    envVars, globalVars, fate>>

Crash ==
  /\ pc' = "crash"
  /\ UNCHANGED <<yyss, yyvs, yyls, yystacksize, yyerrstatus, yynerrs, yyn,
                 yyerror_range1, yyresult, lexVars, envVars, globalVars, calls, nfail,
                 fate, errs>>

yyreduce ==
  /\ pc = "yyreduce"
  /\ IF Crashes(yyn) THEN Crash
     ELSE \E ok \in BuilderOutcomes(yyn) :
            IF ok THEN ReduceOk(yyn) ELSE ReduceFail(yyn)

(***************************************************************************)
(* yyerrlab: report the syntax error unless recovering, and discard the    *)
(* lookahead that recovery has already failed on.                          *)
(***************************************************************************)
\* a faulty variant of Discards: the lookahead is dropped whenever the
\* parser is recovering
DiscardsWhileRecovering == yyerrstatus > 0

\* if (yyerrstatus == 3): error recovery has just failed on this lookahead
Discards == yyerrstatus = 3

yyerrlab ==
  /\ pc = "yyerrlab"
  /\ LET yytoken == IF yychar = YYEMPTY THEN YYEMPTY ELSE YYTRANSLATE(yychar)
         report == yyerrstatus = 0
     IN /\ yynerrs' = IF report THEN yynerrs + 1 ELSE yynerrs
        /\ calls' = IF report THEN yyerror(yysyntax_error(Top, yytoken), calls)
                    ELSE calls
        /\ errs' = Append(errs, [kind |-> "syntax", rule |-> 0,
                                 pos |-> Len(input), line |-> yylineno,
                                 tok |-> yychar, status |-> yyerrstatus,
                                 nshift |-> NShift, state |-> Top,
                                 call |-> IF Len(calls') > Len(calls)
                                          THEN Len(calls') ELSE 0])
  /\ yyerror_range1' = yylloc
  /\ IF Discards
     THEN IF yychar <= YYEOF
          THEN IF yychar = YYEOF
               THEN pc' = "done" /\ yyresult' = 1 /\ UNCHANGED <<yychar, fate>>
               ELSE pc' = "yyerrlab1" /\ UNCHANGED <<yychar, fate, yyresult>>
          ELSE /\ yychar' = YYEMPTY
               /\ fate' = Append(fate, "D")
               /\ pc' = "yyerrlab1"
               /\ UNCHANGED yyresult
     ELSE pc' = "yyerrlab1" /\ UNCHANGED <<yychar, fate, yyresult>>
  /\ UNCHANGED <<yyss, yyvs, yyls, yystacksize, yyerrstatus, yyn, yylval,
                 yylloc, yylineno, rest, budget, input, envVars, globalVars, nfail>>

(***************************************************************************)
(* yyerrlab1: pop states until one shifts the error token, then shift it.  *)
(***************************************************************************)
CanShiftError(s) ==
  /\ ~ yypact_value_is_default(yypact(s))
  /\ 0 <= yypact(s) + YYTERROR
  /\ yypact(s) + YYTERROR <= YYLAST
  /\ yycheck(yypact(s) + YYTERROR) = YYTERROR
  /\ 0 < yytable(yypact(s) + YYTERROR)

\* how much of the state stack the pop loop keeps; 0 when it empties it
ErrDepth(ss) ==
  LET shifting == {d \in 1..Len(ss) : CanShiftError(ss[d])}
  IN IF shifting = {} THEN 0
     ELSE CHOOSE d \in shifting : \A e \in shifting : e <= d

yyerrlab1 ==
  /\ pc = "yyerrlab1"
  /\ yyerrstatus' = 3
  /\ LET d == ErrDepth(yyss)
     IN IF d = 0
        THEN \* YYABORT
             /\ yyss' = SubSeq(yyss, 1, 1)
             /\ yyvs' = SubSeq(yyvs, 1, 1)
             /\ yyls' = SubSeq(yyls, 1, 1)
             /\ yyerror_range1' = IF Len(yyss) > 1 THEN yyls[2]
                                  ELSE yyerror_range1
             /\ pc' = "done"
             /\ yyresult' = 1
             /\ UNCHANGED <<yystacksize, calls>>
        ELSE LET range1 == IF d < Len(yyss) THEN yyls[d + 1]
                           ELSE yyerror_range1
             IN /\ yyerror_range1' = range1
                /\ yynewstate(SubSeq(yyss, 1, d), SubSeq(yyvs, 1, d),
                              SubSeq(yyls, 1, d),
                              yytable(yypact(yyss[d]) + YYTERROR), yylval,
                              <<range1[1], yylloc[2]>>, calls)
  /\ UNCHANGED <<yynerrs, yyn, lexVars, envVars, globalVars, nfail, fate, errs>>

(***************************************************************************)
(* yyparse from its first statement.                                       *)
(***************************************************************************)
yyparse_locals ==
  /\ yyss = <<0>>
  /\ yyvs = <<Undef>>
  /\ yyls = << <<1, 1>> >>
  /\ yystacksize = YYINITDEPTH
  /\ yychar = YYEMPTY
  /\ yylval = Undef
  /\ yylloc = <<1, 1>>
  /\ yyerrstatus = 0
  /\ yynerrs = 0
  /\ yyn = 0
  /\ yyerror_range1 = <<0, 0>>
  /\ pc = "yybackup"
  /\ yyresult = -1
  /\ yylineno = 1
  /\ calls = <<>>
  /\ nfail = 0
  /\ input = <<>>
  /\ fate = <<>>
  /\ errs = <<>>

\* the caller has set the builder, the file name and the first line
yyparse_start ==
  /\ yyparse_locals
  /\ EditorIdle
  /\ yy_firstline = 0
  /\ yy_filename = "a.beancount"
  /\ builder = "a"
(***************************************************************************)
(* Number expressions as source text.  An expression is written by the     *)
(* precedence grammar                                                      *)
(*     sum   ::= prod  | sum PLUS prod      | sum MINUS prod               *)
(*     prod  ::= unary | prod ASTERISK unary | prod SLASH unary            *)
(*     unary ::= atom  | MINUS unary        | PLUS unary                   *)
(*     atom  ::= NUMBER | LPAREN sum RPAREN                                *)
(* so the tree is the reading its text has when the additive operators     *)
(* bind loosest, then the multiplicative ones, then the unary signs, and   *)
(* the binary operators associate to the left.                             *)
(***************************************************************************)
Leaves == {Dec(0, 1), Dec(2, 1), Dec(3, 1)}

RECURSIVE Atom(_), Unary(_), Prod(_), Sum(_)
Atom(n) ==
  IF n = 0 THEN Leaves ELSE {<<"paren", e>> : e \in Sum(n - 1)}
Unary(n) ==
  Atom(n) \cup
  (IF n = 0 THEN {}
   ELSE {<<s, e>> : s \in {"neg", "pos"}, e \in Unary(n - 1)})
Prod(n) ==
  Unary(n) \cup
  UNION {{<<"bin", op, l, r>> :
            op \in {"*", "/"}, l \in Prod(a), r \in Unary(n - 1 - a)} :
         a \in 0..(n - 1)}
Sum(n) ==
  Prod(n) \cup
  UNION {{<<"bin", op, l, r>> :
            op \in {"+", "-"}, l \in Sum(a), r \in Prod(n - 1 - a)} :
         a \in 0..(n - 1)}

\* the expressions of the boundary tests: 1.5 + 2 * 3, (1.5 + 2) * 3,
\* -1 - -2, and a division by zero followed by an addition
ExprExamples ==
  { <<"bin", "+", Dec(3, 2), <<"bin", "*", Dec(2, 1), Dec(3, 1)>>>>,
    <<"bin", "*", <<"paren", <<"bin", "+", Dec(3, 2), Dec(2, 1)>>>>, Dec(3, 1)>>,
    <<"bin", "-", <<"neg", Dec(1, 1)>>, <<"neg", Dec(2, 1)>>>>,
    <<"bin", "+", <<"bin", "/", Dec(2, 1), Dec(0, 1)>>, Dec(2, 1)>> }

\* an expression left unfinished: its text followed by a dangling PLUS
ExprInputs ==
  UNION {Sum(n) : n \in 0..MaxOps} \cup ExprExamples
  \cup {<<"bad", e>> : e \in Sum(0)}

OpToken(op) ==
  CASE op = "+" -> PLUS [] op = "-" -> MINUS
    [] op = "*" -> ASTERISK [] OTHER -> SLASH

RECURSIVE ExprTokens(_)
ExprTokens(e) ==
  CASE e[1] = "num" -> <<N(e[2], e[3])>>
    [] e[1] = "paren" -> <<T(LPAREN)>> \o ExprTokens(e[2]) \o <<T(RPAREN)>>
    [] e[1] = "neg" -> <<T(MINUS)>> \o ExprTokens(e[2])
    [] e[1] = "pos" -> <<T(PLUS)>> \o ExprTokens(e[2])
    [] e[1] = "bad" -> ExprTokens(e[2]) \o <<T(PLUS)>>
    [] OTHER -> ExprTokens(e[3]) \o <<T(OpToken(e[2]))>> \o ExprTokens(e[4])

\* the expression as the amount of a price directive
PriceLine(e) ==
  <<T(DATE), T(PRICE), T(CURRENCY)>> \o ExprTokens(e) \o <<T(CURRENCY), T(EOL)>>


(***************************************************************************)
(* Three spellings of one expression, each as the amount of a price        *)
(* directive of its own, in any rotation of the three lines.               *)
(***************************************************************************)
MaxEquivOps == 1

EquivInputs ==
  UNION {Sum(n) : n \in 0..MaxEquivOps} \cup ExprExamples
  \cup {<<"bad", e>> : e \in Sum(0)}

\* X, LPAREN X RPAREN, MINUS MINUS X
EquivForms(x) == <<x, <<"paren", x>>, <<"neg", <<"neg", x>>>>>>

EquivText(x, k) ==
  LET f == EquivForms(x)
      g == [i \in 1..3 |-> f[((i + k - 1) % 3) + 1]]
  IN PriceLine(g[1]) \o PriceLine(g[2]) \o PriceLine(g[3])

Init ==
  /\ yyparse_start
  /\ fam = "main"
  /\ expr = None
  /\ rest = <<>>
  /\ budget = MaxChunks

InitFail ==
  /\ yyparse_start
  /\ fam = "fail"
  /\ expr = None
  /\ rest = <<>>
  /\ budget = MaxFailChunks

InitBlank ==
  /\ yyparse_start
  /\ fam = "blank"
  /\ expr = None
  /\ rest = <<>>
  /\ budget = MaxBlank

InitTags ==
  /\ yyparse_start
  /\ fam = "tags"
  /\ expr = None
  /\ rest = <<>>
  /\ budget = MaxTagChunks

InitExpr ==
  /\ yyparse_start
  /\ fam = "expr"
  /\ expr \in ExprInputs
  /\ rest = PriceLine(expr)
  /\ budget = 0

InitEquiv ==
  /\ yyparse_start
  /\ fam = "equiv"
  /\ \E x \in EquivInputs, k \in 0..2 :
       /\ expr = <<"rot", k, x>>
       /\ rest = EquivText(x, k)
  /\ budget = 0

InitHeader ==
  /\ yyparse_start
  /\ fam = "header"
  /\ expr = None
  /\ rest = <<>>
  /\ budget = MaxFields + 2

InitBlock ==
  /\ yyparse_start
  /\ fam = "block"
  /\ expr = None
  /\ rest = <<>>
  /\ budget = MaxLines + 2

InitPosting ==
  /\ yyparse_start
  /\ fam = "posting"
  /\ expr = None
  /\ rest = <<>>
  /\ budget = MaxPostings + 1

InitCost ==
  /\ yyparse_start
  /\ fam = "cost"
  /\ expr = None
  /\ rest = <<>>
  /\ budget = 2 * MaxComps + 1

InitBalance ==
  /\ yyparse_start
  /\ fam = "balance"
  /\ expr = None
  /\ rest = <<>>
  /\ budget = MaxBalances

InitMeta ==
  /\ yyparse_start
  /\ fam = "meta"
  /\ expr = None
  /\ rest = <<>>
  /\ budget = MaxMeta + 1

\* the first lines a caller gives: a whole file, or text cut from line 8
FirstLines == {0, 7}

InitDirs ==
  /\ yyparse_locals
  /\ EditorIdle
  /\ yy_firstline \in FirstLines
  /\ yy_filename = "a.beancount"
  /\ builder = "a"
  /\ fam = "dirs"
  /\ expr = None
  /\ rest = <<>>
  /\ budget = MaxDirs

\* a file parsed while another parse may start in another thread
MaxParallelChunks == 2

InitParallel ==
  /\ yyparse_start
  /\ fam = "parallel"
  /\ expr = None
  /\ rest = <<>>
  /\ budget = MaxParallelChunks

InitRecover ==
  /\ yyparse_start
  /\ fam = "recover"
  /\ expr = None
  /\ rest = <<>>
  /\ budget = MaxRecover + 1

\* balance directives parsed with a builder that may fail
InitBalanceFail ==
  /\ yyparse_start
  /\ fam = "balancefail"
  /\ expr = None
  /\ rest = <<>>
  /\ budget = MaxBalances

InitLexer ==
  /\ yyparse_start
  /\ fam = "lexer"
  /\ expr = None
  /\ rest = <<>>
  /\ budget = MaxLexerLines

Next == yylex \/ yybackup \/ yyreduce \/ yyerrlab \/ yyerrlab1

Spec == Init /\ [][Next]_vars
SpecFail == InitFail /\ [][Next]_vars
SpecBlank == InitBlank /\ [][Next]_vars
SpecTags == InitTags /\ [][Next]_vars
SpecExpr == InitExpr /\ [][Next]_vars
SpecEquiv == InitEquiv /\ [][Next]_vars
SpecHeader == InitHeader /\ [][Next]_vars
SpecBlock == InitBlock /\ [][Next]_vars
SpecPosting == InitPosting /\ [][Next]_vars
SpecCost == InitCost /\ [][Next]_vars
SpecBalance == InitBalance /\ [][Next]_vars
SpecMeta == InitMeta /\ [][Next]_vars
SpecDirs == InitDirs /\ [][Next]_vars
SpecParallel == InitParallel /\ [][Next]_vars
SpecRecover == InitRecover /\ [][Next]_vars
SpecBalanceFail == InitBalanceFail /\ [][Next]_vars
SpecLexer == InitLexer /\ [][Next]_vars
(***************************************************************************)
(* Properties.  They are stated over the history of the run: the builder   *)
(* calls made, the tokens read and what became of each, the errors met.    *)
(***************************************************************************)
Done == pc = "done"
Accepted == pc = "done" /\ yyresult = 0

CallsOf(ms) == SelectSeq(calls, LAMBDA c : c.m \in ms)
GrammarErrors == CallsOf({"build_grammar_error"})

\* the builder methods of the dated directives (entry, rules 83-92)
EntryMethods ==
  {"transaction", "balance", "open", "close", "pad", "document", "note",
   "event", "price", "commodity"}

\* the dated directives reduced successfully, as the objects built for them
Entries ==
  LET E == SelectSeq(calls, LAMBDA c : c.m \in EntryMethods /\ c.ok)
  IN [i \in 1..Len(E) |-> Obj(E[i].m, E[i].a)]

\* the handle_list calls of declarations: declarations entry
EntryAppends ==
  SelectSeq(calls, LAMBDA c : c.m = "handle_list" /\ c.rule = 105)

\* the list a chain of handle_list results stands for
RECURSIVE ListOf(_)
ListOf(v) ==
  IF Tag(v) = "None" THEN <<>> ELSE Append(ListOf(v[3][1]), v[3][2])

\* the position in the source text of the DATE that starts an entry
DatePos(entry) == entry[3][1][3]

\* C1: handle_list(declarations, entry) is called exactly once per
\* successfully reduced dated directive, in source order, each time with the
\* list accumulated so far as first argument (None before the first entry),
\* and store_result receives the list of the reduced entries in source order.
C1_EntriesAppendedInSourceOrder ==
  LET E == Entries
      H == EntryAppends
  IN /\ Len(H) <= Len(E) /\ Len(E) <= Len(H) + 1
     /\ \A i \in 1..Len(H) :
          /\ H[i].a[2] = E[i]
          /\ H[i].a[1] = IF i = 1 THEN None
                         ELSE Obj("handle_list", H[i - 1].a)
     /\ \A i \in 1..(Len(H) - 1) : H[i].ok
     /\ \A i \in 1..(Len(E) - 1) : DatePos(E[i]) < DatePos(E[i + 1])
     /\ \A i \in 1..Len(calls) :
          calls[i].m = "store_result" =>
            /\ Len(H) = Len(E)
            /\ ListOf(calls[i].a[1]) = E

\* C1 happens: a file of three directives, the second one failing to parse,
\* has been parsed to the end and two entries have been stored
C1_Witness ==
  /\ Accepted
  /\ Len(Entries) = 2
  /\ Len(errs) > 0
  /\ Last(calls).m = "store_result"
  /\ Len(ListOf(Last(calls).a[1])) = 2

\* the token codes of a piece of source text
Codes(text) == [i \in 1..Len(text) |-> text[i][1]]

\* token p is the first of its line
LineStart(p) == p = 1 \/ input[p - 1] = EOL

\* the tokens from p on begin with the codes of line
LineAt(p, line) ==
  /\ p + Len(line) - 1 <= Len(input)
  /\ SubSeq(input, p, p + Len(line) - 1) = Codes(line)

\* the directive line at p is complete: no indented line continues it
NotContinued(p, line) ==
  p + Len(line) > Len(input) \/ input[p + Len(line)] # INDENT

\* the call of builder method m for the directive whose DATE is token p
BuiltAt(m, p) ==
  \E i \in 1..Len(calls) :
    calls[i].m = m /\ calls[i].ok /\ calls[i].a[1] = <<"tok", DATE, p>>

\* the dated lines of the source texts whose second token is unexpected
UnexpectedSecond == {BadLine, LexErrorLine}

\* C2 as stated: in <open> <dated line with an unexpected second token>
\* <open>, open is called exactly twice and build_grammar_error exactly once
C2_AsStated ==
  \A bad \in UnexpectedSecond :
    Accepted /\ nfail = 0 /\ input = Codes(OpenLine \o bad \o OpenLine) =>
      /\ Len(CallsOf({"open"})) = 2
      /\ Len(GrammarErrors) = 1

\* C2, amended: every well-formed open or close line that starts a later
\* line is still built; in <open> <dated line with an unexpected second
\* token> <open>, open is called exactly twice, and build_grammar_error
\* exactly once, for line 2, unless the unexpected token is LEX_ERROR, for
\* which the parser makes no build_grammar_error call
C2_LaterDirectivesStillBuilt ==
  Accepted /\ nfail = 0 =>
    /\ \A p \in 1..Len(input) :
         /\ LineStart(p) /\ LineAt(p, OpenLine) /\ NotContinued(p, OpenLine)
              => BuiltAt("open", p)
         /\ LineStart(p) /\ LineAt(p, CloseLine) /\ NotContinued(p, CloseLine)
              => BuiltAt("close", p)
    /\ \A bad \in UnexpectedSecond :
         input = Codes(OpenLine \o bad \o OpenLine) =>
           /\ Len(CallsOf({"open"})) = 2
           /\ BuiltAt("open", 1)
           /\ BuiltAt("open", Len(OpenLine) + Len(bad) + 1)
           /\ IF bad = LexErrorLine THEN Len(GrammarErrors) = 0
              ELSE /\ Len(GrammarErrors) = 1
                   /\ GrammarErrors[1].line = 2 + yy_firstline

\* C2 happens: <open> <DATE COMMA CURRENCY> <open> has been parsed to the
\* end, with one error reported and both accounts opened
C2_Witness ==
  /\ Accepted /\ nfail = 0
  /\ input = Codes(OpenLine \o BadLine \o OpenLine)
  /\ Len(CallsOf({"open"})) = 2
  /\ Len(GrammarErrors) = 1

\* the report of a failed builder call
IsExceptionReport(c) == c.m = "build_grammar_error" /\ c.a[1] = "exception"

\* every failed builder call is followed at once by the one
\* build_grammar_error call made for it
FailuresReported ==
  /\ \A i \in 1..Len(calls) :
       ~ calls[i].ok =>
         /\ i < Len(calls)
         /\ IsExceptionReport(calls[i + 1])
         /\ calls[i + 1].rule = calls[i].rule
  /\ \A j \in 1..Len(calls) :
       IsExceptionReport(calls[j]) => j > 1 /\ ~ calls[j - 1].ok

\* C3 as stated: whichever builder call fails, build_grammar_error is called
\* once for it and the parse goes on to the end of the input: yyparse does
\* not abort, and the directives on later lines are still built
C3_AsStated ==
  /\ FailuresReported
  /\ Done => yyresult = 0
  /\ Done /\ nfail > 0 =>
       \A p \in (Last(errs).pos + 1)..Len(input) :
         /\ LineStart(p) /\ LineAt(p, OpenLine) /\ NotContinued(p, OpenLine)
              => BuiltAt("open", p)
         /\ LineStart(p) /\ LineAt(p, CloseLine) /\ NotContinued(p, CloseLine)
              => BuiltAt("close", p)

\* what holds of a failed builder call: it is reported once, and the parse
\* goes on unless the failed call is the handle_list of declarations:
\* declarations entry or store_result, after which yyparse returns 1
C3_FailureAbortsOnlyAtTopLevel ==
  /\ FailuresReported
  /\ Done /\ nfail > 0 =>
       yyresult = IF \E i \in 1..Len(calls) :
                       ~ calls[i].ok /\ calls[i].rule \in {105, 108}
                  THEN 1 ELSE 0

\* a builder call has failed: it returned NULL, or PyObject_CallMethod could
\* not build its arguments
BuilderCallFailed == nfail > 0 \/ (pc = "crash" /\ yyn \in BuildRules)

\* C4 as stated: when no builder call fails, whatever the tokens, the parse
\* ends, in the accepting state, with store_result as its one and last call
C4_AsStated ==
  ~ BuilderCallFailed =>
    /\ pc # "crash"
    /\ Done =>
         /\ yyresult = 0
         /\ Last(calls).m = "store_result"
         /\ Len(CallsOf({"store_result"})) = 1

\* what holds of syntax errors: a parse that ends without a failed builder
\* call ends in the accepting state, with store_result as its last call
C4_SyntaxErrorsDoNotHalt ==
  Done /\ nfail = 0 =>
    /\ yyresult = 0
    /\ Last(calls).m = "store_result"
    /\ Len(CallsOf({"store_result"})) = 1

\* the syntax errors met on a token of the source text
SyntaxErrorAt(i) == errs[i].kind = "syntax" /\ errs[i].tok > 0

\* C5 as stated: for every token the automaton cannot accept, other than
\* LEX_ERROR, build_grammar_error is called at least once with its line
C5_AsStated ==
  \A i \in 1..Len(errs) :
    SyntaxErrorAt(i) /\ errs[i].tok # LEX_ERROR =>
      \E j \in 1..Len(GrammarErrors) :
        GrammarErrors[j].line = errs[i].line + yy_firstline

\* C5, amended: a token the automaton cannot accept is reported, by one
\* build_grammar_error call that carries the lexer's line and names the
\* token, exactly when it is not LEX_ERROR and the parser is not recovering
\* (yyerrstatus = 0); and the parser is recovering from the previous error,
\* of either kind, until three tokens have been shifted since
C5_ReportedUnlessRecovering ==
  \A i \in 1..Len(errs) :
    errs[i].kind = "syntax" =>
      /\ errs[i].call > 0 <=>
           (errs[i].status = 0 /\ errs[i].tok # LEX_ERROR)
      /\ errs[i].call > 0 =>
           /\ calls[errs[i].call].m = "build_grammar_error"
           /\ calls[errs[i].call].line = errs[i].line + yy_firstline
           /\ calls[errs[i].call].a[1][2] = yytname(YYTRANSLATE(errs[i].tok))
      /\ errs[i].status = 0 <=>
           (i = 1 \/ errs[i].nshift - errs[i - 1].nshift >= 3)

\* C5 happens: a malformed line has been reported, and a malformed line
\* after it, met while the parser was still recovering, has not
C5_Witness ==
  /\ Accepted
  /\ \E i, j \in 1..Len(errs) :
       /\ i < j
       /\ SyntaxErrorAt(i) /\ errs[i].call > 0
       /\ SyntaxErrorAt(j) /\ errs[j].tok # LEX_ERROR
       /\ errs[j].line > errs[i].line
       /\ errs[j].status \in {1, 2}
       /\ \A k \in 1..Len(GrammarErrors) :
            GrammarErrors[k].line # errs[j].line + yy_firstline

\* the first token error recovery looks at: the lookahead of the error, or
\* the next token when there was none
Start(e) == IF e.tok \in {YYEMPTY, YYEOF} THEN e.pos + 1 ELSE e.pos

DeclarationsState == GotoState(yyr1(107), 0)
ResyncTokens ==
  {c \in LEX_ERROR..NEGATIVE :
     LET n == yypact(DeclarationsState) + YYTRANSLATE(c)
     IN 0 <= n /\ n <= YYLAST /\ yycheck(n) = YYTRANSLATE(c)}

TagCalls == CallsOf({"pushtag", "poptag", "transaction"})
SrcPos(c) == c.a[1][3]
Methods(cs) == [i \in 1..Len(cs) |-> cs[i].m]

\* pushtag, three transactions, poptag, a fourth transaction
TagScenario ==
  PushLine \o TxnLine \o TxnLine \o TxnLine \o PopLine \o TxnLine

\* a tagged transaction with a posting, then an untagged one
TagPostingScenario ==
  PushLine \o TxnLine \o PostingLine \o PopLine \o TxnLine

\* C7: the pushtag, poptag and transaction calls are made in the source
\* order of their directives, each directive with the method of its own
\* keyword, a transaction being built only when the token after its block
\* has been read (the last token read is then no EOL, or the input is at its
\* end); with pushtag, three transactions, poptag and a fourth
\* transaction, exactly the first three transaction calls lie between the
\* pushtag call and the poptag call
C7_TagCallsInSourceOrder ==
  /\ \A i \in 1..(Len(TagCalls) - 1) : SrcPos(TagCalls[i]) < SrcPos(TagCalls[i + 1])
  /\ \A i \in 1..Len(TagCalls) :
       /\ TagCalls[i].m = "pushtag" => input[SrcPos(TagCalls[i]) - 1] = PUSHTAG
       /\ TagCalls[i].m = "poptag" => input[SrcPos(TagCalls[i]) - 1] = POPTAG
       /\ TagCalls[i].m = "transaction" =>
            /\ input[SrcPos(TagCalls[i])] = DATE
            /\ TagCalls[i].seen = Len(input) \/ input[TagCalls[i].seen] # EOL
  /\ Accepted /\ input = Codes(TagScenario) =>
       Methods(TagCalls) = <<"pushtag", "transaction", "transaction",
                             "transaction", "poptag", "transaction">>
  /\ Accepted /\ input = Codes(TagPostingScenario) =>
       Methods(CallsOf({"pushtag", "poptag", "transaction", "posting"})) =
         <<"pushtag", "posting", "transaction", "poptag", "transaction">>

\* C7 happens: pushtag, three transactions, poptag and a fourth transaction
\* have been parsed to the end, with four transaction calls
C7_Witness ==
  /\ Accepted
  /\ input = Codes(TagScenario)
  /\ Len(CallsOf({"transaction"})) = 4
  /\ Len(CallsOf({"pushtag", "poptag"})) = 2

\* the only call made is store_result, with the empty declarations value
OnlyStoresNone ==
  /\ Len(calls) = 1
  /\ calls[1].m = "store_result"
  /\ calls[1].a = <<None>>
  /\ calls[1].ok

\* C8: on the empty token stream no error is met and no directive built;
\* the only call is store_result(None), and yyparse returns 0
C8_EmptyInput ==
  input = <<>> /\ nfail = 0 =>
    /\ errs = <<>>
    /\ calls = <<>> \/ OnlyStoresNone
    /\ Done => Accepted /\ OnlyStoresNone

\* C8 happens: end of input was the first token read, and the parse is over
C8_Witness ==
  /\ Accepted
  /\ input = <<>>
  /\ nfail = 0
  /\ OnlyStoresNone

BlankTokens == {EOL, COMMENT, INDENT, SKIPPED}

\* C9: on a token stream made only of EOL, COMMENT, INDENT and SKIPPED, in
\* any order and number, no error is met and no directive built; the only
\* call is store_result(None), and yyparse returns 0
C9_BlankInput ==
  (\A i \in 1..Len(input) : input[i] \in BlankTokens) /\ nfail = 0 =>
    /\ errs = <<>>
    /\ \A i \in 1..Len(fate) : fate[i] = "S"
    /\ calls = <<>> \/ OnlyStoresNone
    /\ Done => Accepted /\ OnlyStoresNone

\* C9 happens: a stream in which each of the four tokens occurs has been
\* parsed to the end
C9_Witness ==
  /\ Done
  /\ \A i \in 1..Len(input) : input[i] \in BlankTokens
  /\ \A c \in BlankTokens : \E i \in 1..Len(input) : input[i] = c
  /\ Len(calls) = 1

(***************************************************************************)
(* The value of an expression tree, as a fraction <<"val", p, q>> with     *)
(* q > 0, or <<"nan">> when it divides by zero.                            *)
(***************************************************************************)
RECURSIVE Eval(_)
Eval(e) ==
  CASE e[1] = "num" -> <<"val", e[2], e[3]>>
    [] e[1] \in {"paren", "pos", "bad"} -> Eval(e[2])
    [] e[1] = "neg" ->
         LET x == Eval(e[2])
         IN IF x[1] = "nan" THEN x ELSE <<"val", -x[2], x[3]>>
    [] OTHER ->
         LET l == Eval(e[3])
             r == Eval(e[4])
         IN IF l[1] = "nan" \/ r[1] = "nan" THEN <<"nan">>
            ELSE CASE e[2] = "+" -> <<"val", l[2] * r[3] + r[2] * l[3], l[3] * r[3]>>
                   [] e[2] = "-" -> <<"val", l[2] * r[3] - r[2] * l[3], l[3] * r[3]>>
                   [] e[2] = "*" -> <<"val", l[2] * r[2], l[3] * r[3]>>
                   [] OTHER -> IF r[2] = 0 THEN <<"nan">>
                               ELSE IF r[2] > 0
                               THEN <<"val", l[2] * r[3], l[3] * r[2]>>
                               ELSE <<"val", -(l[2] * r[3]), l[3] * (-r[2])>>

\* the number v is the fraction x
SameNumber(v, x) == Tag(v) = "num" /\ x[1] = "val" /\ v[2] * x[3] = x[2] * v[3]

AmountCalls == CallsOf({"amount"})

\* C10: the number handed to builder.amount is the value of the expression
\* read with + - binding loosest, then * /, then the unary signs, then
\* parentheses, the binary operators associating to the left; 1.5 + 2 * 3
\* gives 7.5, (1.5 + 2) * 3 gives 10.5 and -1 - -2 gives 1
C10_ValueFollowsPrecedence ==
  fam = "expr" =>
    /\ Len(AmountCalls) <= 1
    /\ \A i \in 1..Len(AmountCalls) :
         /\ expr[1] # "bad"
         /\ SameNumber(AmountCalls[i].a[1], Eval(expr))
    /\ Accepted => (Len(AmountCalls) = 1 <=> expr[1] # "bad")
    /\ Accepted /\ expr[1] # "bad" => Len(CallsOf({"price"})) = 1 /\ errs = <<>>
    /\ Len(AmountCalls) = 1 =>
         /\ expr = <<"bin", "+", Dec(3, 2), <<"bin", "*", Dec(2, 1), Dec(3, 1)>>>>
              => AmountCalls[1].a[1] = Dec(15, 2)
         /\ expr = <<"bin", "*", <<"paren", <<"bin", "+", Dec(3, 2), Dec(2, 1)>>>>,
                     Dec(3, 1)>>
              => AmountCalls[1].a[1] = Dec(21, 2)
         /\ expr = <<"bin", "-", <<"neg", Dec(1, 1)>>, <<"neg", Dec(2, 1)>>>>
              => AmountCalls[1].a[1] = Dec(1, 1)
         /\ expr = <<"bin", "-", <<"bin", "-", Dec(2, 1), Dec(3, 1)>>, Dec(2, 1)>>
              => AmountCalls[1].a[1] = Dec(-3, 1)

\* C10 happens: 1.5 + 2 * 3 has been parsed as the amount of a price
\* directive, and builder.amount has received 7.5
C10_Witness ==
  /\ Accepted
  /\ expr = <<"bin", "+", Dec(3, 2), <<"bin", "*", Dec(2, 1), Dec(3, 1)>>>>
  /\ Len(AmountCalls) = 1
  /\ AmountCalls[1].a[1] = Dec(15, 2)

(***************************************************************************)
(* Equivalent spellings of a number expression.                            *)
(***************************************************************************)
\* the expression the three price lines of the text spell
EquivX == expr[3]

\* C11: the price lines X, LPAREN X RPAREN and MINUS MINUS X, in any order,
\* are all read without a syntax error when X is a number expression, and
\* their builder.amount calls receive the same number, the value of X; when
\* the value of X does not exist (a division by zero) none of the three
\* spellings reaches builder.amount
C11_SpellingsAgree ==
  fam = "equiv" =>
    /\ \A i, j \in 1..Len(AmountCalls) :
         /\ Tag(AmountCalls[i].a[1]) = "num"
         /\ AmountCalls[i].a[1] = AmountCalls[j].a[1]
         /\ SameNumber(AmountCalls[i].a[1], Eval(EquivX))
    /\ EquivX[1] # "bad" => errs = <<>> /\ GrammarErrors = <<>>
    /\ EquivX[1] # "bad" /\ Done =>
         /\ Accepted
         /\ Len(AmountCalls) = 3
         /\ Len(CallsOf({"price"})) = 3
    /\ pc = "crash" => Eval(EquivX) = <<"nan">> /\ AmountCalls = <<>>
    /\ Eval(EquivX) = <<"nan">> => AmountCalls = <<>> /\ ~ Done

\* C11 happens: 2 - 3 has been read in its three spellings, the plain one
\* last, and builder.amount has received -1 three times
C11_Witness ==
  /\ fam = "equiv"
  /\ Accepted
  /\ expr = <<"rot", 1, <<"bin", "-", Dec(2, 1), Dec(3, 1)>>>>
  /\ Len(AmountCalls) = 3
  /\ \A i \in 1..3 : AmountCalls[i].a[1] = Dec(-1, 1)


(***************************************************************************)
(* Transactions: the header line and the block of indented lines.          *)
(***************************************************************************)
TxnFieldMethods ==
  {"txn_field_new", "txn_field_STRING", "txn_field_TAG", "txn_field_LINK",
   "txn_field_PIPE"}
FieldCalls == CallsOf(TxnFieldMethods)

\* the builder method of a header field token
FieldMethodOf(c) ==
  CASE c = STRING_ -> "txn_field_STRING"
    [] c = TAG -> "txn_field_TAG"
    [] c = LINK -> "txn_field_LINK"
    [] OTHER -> "txn_field_PIPE"

\* the object a successful call returned
ResultOf(c) == Obj(c.m, c.a)

\* the position of the EOL that ends the header line (0: not read yet)
HeaderEnd ==
  IF \E i \in 1..Len(input) : input[i] = EOL
  THEN CHOOSE i \in 1..Len(input) :
         input[i] = EOL /\ \A j \in 1..(i - 1) : input[j] # EOL
  ELSE 0

\* the positions of the INDENT tokens, in order
RECURSIVE IndentsFrom(_)
IndentsFrom(i) ==
  IF i > Len(input) THEN <<>>
  ELSE IF input[i] = INDENT THEN <<i>> \o IndentsFrom(i + 1)
  ELSE IndentsFrom(i + 1)
LinePositions == IndentsFrom(1)

\* the builder methods a well-formed indented line starting at i calls
LineMethods(i) ==
  IF i + 1 <= Len(input) /\ input[i + 1] = KEY
  THEN <<"key_value", "handle_list">>
  ELSE IF i + 2 <= Len(input) /\ input[i + 2] = NUMBER
  THEN <<"amount", "position", "posting", "handle_list">>
  ELSE <<"posting", "handle_list">>

RECURSIVE Flatten(_)
Flatten(ss) == IF ss = <<>> THEN <<>> ELSE Head(ss) \o Flatten(Tail(ss))

\* the text read so far is a header line followed by well-formed indented
\* lines only
WellFormedBlock == fam = "block" /\ HeaderEnd > 0 /\ ~ BlockEnded

\* the methods the transaction read so far is to call, in order
ExpectedTxnMethods ==
  <<"txn_field_new">>
  \o [i \in 1..(HeaderEnd - 3) |-> FieldMethodOf(input[i + 2])]
  \o Flatten([k \in 1..Len(LinePositions) |-> LineMethods(LinePositions[k])])
  \o <<"transaction", "handle_list", "store_result">>

Methods12 == [i \in 1..Len(calls) |-> calls[i].m]

IsPrefix(s, t) == Len(s) <= Len(t) /\ s = SubSeq(t, 1, Len(s))

\* the handle_list calls of posting_or_kv_list, as indices into calls
IsBlockAppend(k) == calls[k].m = "handle_list" /\ calls[k].rule \in {45, 46}

\* the flag a txn marker stands for
MarkerFlag == IF input[2] = FLAG THEN Chr("!") ELSE Chr("*")

\* C12: a well-formed transaction calls txn_field_new, then one txn_field_*
\* method per header field, then for each posting line posting followed by
\* handle_list, in source order, and at the end transaction exactly once,
\* with the date, the flag ('*' for TXN and ASTERISK, the lexed character
\* for FLAG), the accumulated header fields and the accumulated list (None
\* when there is no indented line); INDENT ACCOUNT EOL gives a posting whose
\* position and price are None
C12_TransactionCalls ==
  WellFormedBlock =>
    /\ errs = <<>>
    /\ IsPrefix(Methods12, ExpectedTxnMethods)
    /\ Done => Accepted /\ Methods12 = ExpectedTxnMethods
    /\ \A k \in 1..Len(calls) :
         /\ IsBlockAppend(k) =>
              /\ calls[k - 1].m \in {"posting", "key_value"}
              /\ calls[k].a[2] = ResultOf(calls[k - 1])
              /\ calls[k].a[1] =
                   IF \E j \in 1..(k - 1) : IsBlockAppend(j)
                   THEN ResultOf(calls[CHOOSE j \in 1..(k - 1) :
                          /\ IsBlockAppend(j)
                          /\ \A l \in (j + 1)..(k - 1) : ~ IsBlockAppend(l)])
                   ELSE None
         /\ calls[k].m = "posting" =>
              /\ calls[k].a[1][1] = "tok" /\ calls[k].a[1][2] = ACCOUNT
              /\ input[calls[k].a[1][3] + 1] = EOL =>
                   calls[k].a[2] = None /\ calls[k].a[3] = None
              /\ \A j \in 1..(k - 1) : calls[j].m = "posting" =>
                   calls[j].a[1][3] < calls[k].a[1][3]
         /\ calls[k].m = "transaction" =>
              /\ calls[k].a[1] = <<"tok", DATE, 1>>
              /\ calls[k].a[2] = MarkerFlag
              /\ calls[k - 1].m \in TxnFieldMethods \cup {"handle_list"}
              /\ calls[k].a[3] = ResultOf(FieldCalls[Len(FieldCalls)])
              /\ calls[k].a[4] =
                   IF LinePositions = <<>> THEN None
                   ELSE ResultOf(calls[k - 1])
              /\ Len(ListOf(calls[k].a[4])) = Len(LinePositions)

\* C12 happens: a transaction marked with a FLAG, with the header fields
\* STRING STRING TAG, a posting with an amount and a posting without one,
\* has been built
C12_Witness ==
  /\ WellFormedBlock
  /\ Accepted
  /\ input[2] = FLAG
  /\ HeaderEnd = 6
  /\ Len(LinePositions) = 2
  /\ input[LinePositions[1] + 2] = NUMBER
  /\ input[LinePositions[2] + 2] = EOL
  /\ Len(CallsOf({"transaction"})) = 1
  /\ CallsOf({"transaction"})[1].a[2] = Chr("!")

(***************************************************************************)
(* Postings.  A posting call is traced to its line by the position of its  *)
(* ACCOUNT token.                                                          *)
(***************************************************************************)
PostingCalls == CallsOf({"posting"})

\* the position of the first EOL after position p (0: not read yet)
LineEnd(p) ==
  IF \E i \in (p + 1)..Len(input) : input[i] = EOL
  THEN CHOOSE i \in (p + 1)..Len(input) :
         input[i] = EOL /\ \A j \in (p + 1)..(i - 1) : input[j] # EOL
  ELSE 0

\* the line of the ACCOUNT at p holds the token c after the account
LineHas(p, c) == \E i \in (p + 1)..LineEnd(p) : input[i] = c

\* the price annotation at p comes right after the account: no amount
PriceWithoutAmount(p) ==
  /\ p + 1 <= Len(input)
  /\ input[p] = ACCOUNT
  /\ input[p + 1] \in {AT, ATAT}

\* C13: builder.posting receives price-is-total True exactly when the line
\* has ATAT, and False with AT or without annotation; price None exactly
\* when there is no annotation; position None exactly when there is no
\* amount; the flag is the null character without a flag, '*' for ASTERISK
\* and the lexed character for FLAG.  A price annotation right after the
\* account is a syntax error at the AT / ATAT token and its line yields no
\* posting.
C13_PostingArguments ==
  fam = "posting" =>
    /\ \A k \in 1..Len(PostingCalls) :
         LET a == PostingCalls[k].a
             p == a[1][3]
         IN /\ a[1] = <<"tok", ACCOUNT, p>>
            /\ LineEnd(p) > 0
            /\ ~ PriceWithoutAmount(p)
            /\ a[4] = (IF LineHas(p, ATAT) THEN Py_True ELSE Py_False)
            /\ (a[3] = None) <=> ~ (LineHas(p, AT) \/ LineHas(p, ATAT))
            /\ a[3] # None => a[3][1] = "obj" /\ a[3][2] = "amount"
            /\ (a[2] = None) <=> input[p + 1] = EOL
            /\ a[2] # None =>
                 /\ a[2][1] = "obj" /\ a[2][2] = "position"
                 /\ (a[2][3][2] = None) <=> ~ LineHas(p, LCURL)
            /\ a[5] = (CASE input[p - 1] = INDENT -> Chr("")
                         [] input[p - 1] = ASTERISK -> Chr("*")
                         [] OTHER -> Chr("!"))
            /\ PostingCalls[k].ok
            /\ \A j \in 1..(k - 1) : PostingCalls[j].a[1][3] < p
    /\ (\A p \in 1..Len(input) : ~ PriceWithoutAmount(p)) =>
         /\ errs = <<>>
         /\ Done => /\ Accepted
                    /\ Len(PostingCalls)
                         = Len(SelectSeq(input, LAMBDA c : c = INDENT))
    /\ \A i \in 1..Len(errs) :
         /\ errs[i].kind = "syntax"
         /\ PriceWithoutAmount(errs[1].pos - 1)
    /\ \A p \in 1..Len(input) :
         /\ PriceWithoutAmount(p)
         /\ \A q \in 1..(p - 1) : ~ PriceWithoutAmount(q)
         /\ Done \/ Len(input) > p + 1
         =>
           /\ errs # <<>>
           /\ errs[1].pos = p + 1
           /\ errs[1].tok = input[p + 1]
           /\ Len(GrammarErrors) >= 1
           /\ GrammarErrors[1].rule = 0
           /\ CallsOf({"transaction"}) = <<>>

\* C13 happens: a flagged posting with an amount and a total price has been
\* built with price-is-total True
C13_Witness ==
  /\ fam = "posting"
  /\ Accepted
  /\ Len(PostingCalls) = 1
  /\ PostingCalls[1].a[4] = Py_True
  /\ PostingCalls[1].a[5] = Chr("!")
  /\ PostingCalls[1].a[3] # None
  /\ LineHas(PostingCalls[1].a[1][3], ATAT)

(***************************************************************************)
(* Transaction header fields.                                              *)
(***************************************************************************)
\* the header field tokens read so far: what follows DATE and the marker,
\* up to the end of the line
HeaderFields ==
  SelectSeq(SubSeq(input, 3, Len(input)), LAMBDA c : c \in FieldTokens)

\* C14: after DATE and a txn marker every sequence over STRING, TAG, LINK,
\* PIPE is read without a syntax error; txn_field_new is called first, then
\* one txn_field_STRING / _TAG / _LINK / _PIPE call per token in source
\* order, each with the result of the previous call as its accumulator (and
\* the token's value, None for PIPE); the last result goes to transaction
C14_HeaderFieldsInOrder ==
  fam = "header" =>
    LET H == HeaderFields
        C == FieldCalls
    IN /\ \A i \in 1..Len(errs) : errs[i].tok = YYEOF /\ errs[i].kind = "syntax"
       /\ Len(C) <= Len(H) + 1
       /\ Len(H) >= 1 => Len(C) >= Len(H)
       /\ Len(C) >= 1 => C[1].m = "txn_field_new" /\ C[1].a = <<None>>
       /\ \A i \in 2..Len(C) :
            /\ C[i].m = FieldMethodOf(H[i - 1])
            /\ C[i].a[1] = ResultOf(C[i - 1])
            /\ C[i].a[2] = IF H[i - 1] = PIPE THEN None
                           ELSE <<"tok", H[i - 1], i + 1>>
       /\ Len(CallsOf(TxnFieldMethods \cup {"transaction", "handle_list",
                                            "store_result",
                                            "build_grammar_error"}))
            = Len(calls)
       /\ Accepted /\ errs = <<>> /\ Len(input) > 0 =>
            /\ Len(C) = Len(H) + 1
            /\ Len(CallsOf({"transaction"})) = 1
            /\ CallsOf({"transaction"})[1].a[3] = ResultOf(C[Len(C)])
            /\ calls[Len(C) + 1].m = "transaction"

\* C14 happens: the header PIPE STRING LINK has been read and its
\* transaction built
C14_Witness ==
  /\ fam = "header"
  /\ Accepted
  /\ errs = <<>>
  /\ HeaderFields = <<PIPE, STRING_, LINK>>
  /\ Len(FieldCalls) = 4

(***************************************************************************)
(* The end of a transaction's block of indented lines.                     *)
(***************************************************************************)
\* the appends of posting_or_kv_list, in order
BlockAppends ==
  SelectSeq(calls, LAMBDA c : c.m = "handle_list" /\ c.rule \in {45, 46})

\* the position of the token that follows the INDENT of the appended item:
\* the KEY of a key_value, the ACCOUNT of a posting
ItemPos(c) == c.a[2][3][1][3]

\* the position of the first token after an EOL that is not INDENT (0: none)
TermPos ==
  IF \E i \in 2..Len(input) : input[i - 1] = EOL /\ input[i] # INDENT
  THEN CHOOSE i \in 2..Len(input) :
         /\ input[i - 1] = EOL /\ input[i] # INDENT
         /\ \A j \in 2..(i - 1) : ~ (input[j - 1] = EOL /\ input[j] # INDENT)
  ELSE 0

\* the position of the first INDENT that starts neither a posting nor a
\* key_value (0: none)
BrokenPos ==
  IF \E i \in 2..Len(input) : input[i - 1] = INDENT /\ input[i] \in {EOL, COMMA}
  THEN CHOOSE i \in 2..Len(input) :
         /\ input[i - 1] = INDENT /\ input[i] \in {EOL, COMMA}
         /\ \A j \in 2..(i - 1) :
              ~ (input[j - 1] = INDENT /\ input[j] \in {EOL, COMMA})
  ELSE 0

TransactionCalls == CallsOf({"transaction"})

\* C15: after the header line each well-formed indented posting or
\* key_value line is appended by handle_list, in source order, to the list
\* of the lines before it.  A token that is not INDENT at the start of the
\* next line (a bare EOL or any other token) makes the parser reduce the
\* transaction as soon as it is read, before any error is met, with all the
\* lines in its list; a bare EOL leaves no error at all.  An indented line
\* that is neither a posting nor a key_value is a syntax error at its
\* second token and the transaction is never built.
C15_BlockTermination ==
  fam = "block" =>
    LET A == BlockAppends
        L == LinePositions
    IN /\ Len(A) <= Len(L)
       /\ \A k \in 1..Len(A) :
            /\ ItemPos(A[k]) = L[k] + 1
            /\ A[k].a[2][2] = (IF input[L[k] + 1] = KEY THEN "key_value"
                               ELSE "posting")
            /\ A[k].rule = (IF input[L[k] + 1] = KEY THEN 45 ELSE 46)
            /\ A[k].a[1] = (IF k = 1 THEN None ELSE ResultOf(A[k - 1]))
            /\ A[k].ok
       /\ Len(TransactionCalls) <= 1
       /\ TransactionCalls = <<>> /\ BrokenPos = 0 => errs = <<>>
       /\ BrokenPos = 0 /\ Done /\ HeaderEnd > 0 =>
            /\ Len(TransactionCalls) = 1
            /\ Len(A) = Len(L)
       /\ \A k \in 1..Len(TransactionCalls) :
            /\ BrokenPos = 0
            /\ TransactionCalls[k].ok
            /\ TransactionCalls[k].seen = (IF TermPos > 0 THEN TermPos
                                           ELSE Len(input))
            /\ Len(A) = Len(L)
            /\ TransactionCalls[k].a[4] =
                 (IF A = <<>> THEN None ELSE ResultOf(A[Len(A)]))
            /\ Len(ListOf(TransactionCalls[k].a[4])) = Len(L)
       /\ TermPos > 0 /\ input[TermPos] = EOL => errs = <<>>
       /\ TermPos > 0 /\ input[TermPos] = EOL /\ Done => Accepted
       /\ BrokenPos > 0 =>
            /\ TransactionCalls = <<>>
            /\ Len(A) = Len(L) - 1
            /\ Done \/ Len(input) > BrokenPos =>
                 /\ errs # <<>>
                 /\ errs[1].pos = BrokenPos
                 /\ errs[1].kind = "syntax"
                 /\ Len(GrammarErrors) = 1
                 /\ GrammarErrors[1].seen = BrokenPos

\* C15 happens: a key_value line and a posting line have been appended and
\* a DATE at the start of the next line has made the parser build the
\* transaction with both lines
C15_Witness ==
  /\ fam = "block"
  /\ Done
  /\ TermPos > 0
  /\ input[TermPos] = DATE
  /\ Len(LinePositions) = 2
  /\ input[LinePositions[1] + 1] = KEY
  /\ input[LinePositions[2] + 1] = ACCOUNT
  /\ Len(TransactionCalls) = 1
  /\ Len(ListOf(TransactionCalls[1].a[4])) = 2

\* C15, the other case: an indented blank line after a posting has been
\* read to the end and no transaction was built
C15_WitnessBroken ==
  /\ fam = "block"
  /\ Done
  /\ BrokenPos > 0
  /\ Len(BlockAppends) = 1
  /\ TransactionCalls = <<>>

(***************************************************************************)
(* Cost specifications.  In the texts of this family the opening brace is  *)
(* the ninth token.                                                        *)
(***************************************************************************)
CostOpenPos == Len(PostingHeader) + 5
CostRead == fam = "cost" /\ Len(input) >= CostOpenPos
CostComplete == CostRead /\ Last(input) = EOL
CostOpen == input[CostOpenPos]
CostClose == input[Len(input) - 1]

\* the positions of the separators: a COMMA, or a SLASH that does not
\* follow a number
IsCostSeparator(i) ==
  /\ i > CostOpenPos
  /\ input[i] \in {COMMA, SLASH}
  /\ input[i - 1] # NUMBER
CostSeparatorPositions ==
  SelectSeq([i \in 1..Len(input) |-> i], IsCostSeparator)

\* a separator with no component after it
TrailingSeparator ==
  \E i \in 1..(Len(input) - 1) :
     IsCostSeparator(i) /\ input[i + 1] \in {RCURL, RCURLCURL}

\* the number of components between the braces of a complete text
NumComps ==
  IF input[CostOpenPos + 1] \in {RCURL, RCURLCURL} THEN 0
  ELSE Len(CostSeparatorPositions) + 1

HasToken(c) == \E i \in 1..Len(input) : input[i] = c

LotSpecCalls == CallsOf({"lot_spec"})
CompAppends ==
  SelectSeq(calls, LAMBDA c : c.m = "handle_list" /\ c.rule \in {72, 73, 74})

\* the cost specification was reduced and handed to the builder, and the
\* posting and its transaction were built around it
CostBuilt ==
  /\ errs = <<>>
  /\ Accepted
  /\ Len(LotSpecCalls) = 1
  /\ Len(CompAppends) = NumComps
  /\ LotSpecCalls[1].a[1] =
       (IF CompAppends = <<>> THEN None
        ELSE ResultOf(CompAppends[Len(CompAppends)]))
  /\ Len(PostingCalls) = 1
  /\ PostingCalls[1].a[2][2] = "position"
  /\ PostingCalls[1].a[2][3][2] = ResultOf(LotSpecCalls[1])
  /\ Len(TransactionCalls) = 1

\* a text whose components and separators the grammar has rules for
PlainComps == ~ HasToken(ASTERISK) /\ ~ TrailingSeparator

\* C16: a cost specification in either form, LCURL ... RCURL or
\* LCURLCURL ... RCURLCURL, is reduced without a syntax error and passed to
\* the builder
C16_AsStated ==
  /\ CostComplete
  /\ Done
  /\ PlainComps
  /\ \/ CostOpen = LCURL /\ CostClose = RCURL
     \/ CostOpen = LCURLCURL /\ CostClose = RCURLCURL
  => CostBuilt

\* C16, the part that holds: the form LCURL ... RCURL is reduced without a
\* syntax error and passed to the builder
C16_PerUnitFormBuilt ==
  CostComplete /\ Done /\ PlainComps /\ CostOpen = LCURL /\ CostClose = RCURL
  => CostBuilt

\* C16, the part that fails: no rule of the grammar has LCURLCURL in it, so
\* the token is a syntax error where it stands and neither the cost
\* specification nor the posting nor the transaction is built
C16_TotalFormRejected ==
  CostRead /\ CostOpen = LCURLCURL /\ (Done \/ Len(input) > CostOpenPos) =>
    /\ errs # <<>>
    /\ errs[1].tok = LCURLCURL
    /\ errs[1].pos = CostOpenPos
    /\ LotSpecCalls = <<>>
    /\ PostingCalls = <<>>
    /\ TransactionCalls = <<>>

\* the position in the source text of a component handed to handle_list
CompPos(v) == IF v[1] = "tok" THEN v[3] ELSE v[3][3][3]

\* the components were appended one by one in source order, each to the
\* result of the previous append
CompsAppendedInOrder ==
  \A k \in 1..Len(CompAppends) :
     /\ CompAppends[k].a[1] =
          (IF k = 1 THEN None ELSE ResultOf(CompAppends[k - 1]))
     /\ CompAppends[k].rule = 72 <=> k = 1
     /\ \A j \in 1..(k - 1) :
          CompPos(CompAppends[j].a[2]) < CompPos(CompAppends[k].a[2])

\* C17: between LCURL and RCURL each component that is a compound amount
\* (number, optionally SLASH number, then currency), a DATE, a STRING or
\* the ASTERISK merge marker is accepted, the components are appended
\* through handle_list in source order and the list is passed to the
\* builder
C17_AsStated ==
  /\ CostComplete
  /\ Done
  /\ CostOpen = LCURL /\ CostClose = RCURL
  /\ ~ TrailingSeparator
  /\ ~ HasToken(HASH)
  /\ \A i \in 1..Len(input) : IsCostSeparator(i) => input[i] = COMMA
  => CostBuilt /\ CompsAppendedInOrder

\* C17, the part that holds: compound amounts (a number expression, or two
\* separated by HASH, then the currency), DATE and STRING components
C17_GrammarComponentsBuilt ==
  /\ CostComplete
  /\ Done
  /\ CostOpen = LCURL /\ CostClose = RCURL
  /\ PlainComps
  => CostBuilt /\ CompsAppendedInOrder

\* C17, the part that fails: lot_comp has no rule for ASTERISK, so the
\* marker is a syntax error where it stands and the posting is lost
C17_MergeMarkerRejected ==
  /\ CostRead
  /\ CostOpen = LCURL
  /\ HasToken(ASTERISK)
  /\ Done
  =>
    /\ errs # <<>>
    /\ errs[1].tok = ASTERISK
    /\ LotSpecCalls = <<>>
    /\ PostingCalls = <<>>
    /\ TransactionCalls = <<>>

\* C17, a remark on the compound amount: number SLASH number currency is
\* read as one number, the quotient; the two-number form is written with
\* HASH
C17_SlashIsDivision ==
  \A k \in 1..Len(calls) :
     calls[k].m = "compound_amount" /\ fam = "cost" =>
       LET p == calls[k].a[3][3]
       IN /\ input[p] = CURRENCY
          /\ (calls[k].a[2] # None) <=> input[p - 2] = HASH
          /\ input[p - 2] = SLASH /\ input[p - 3] = NUMBER =>
               calls[k].a[1] = Dec(3, 2)

\* the texts the deprecated separator is studied on: LCURL ... RCURL with
\* components the grammar has rules for
DeprecationText == CostRead /\ CostOpen = LCURL /\ PlainComps /\ ~ HasToken(RCURLCURL)

SlashSeparators ==
  SelectSeq(CostSeparatorPositions, LAMBDA i : input[i] = SLASH)

IsDeprecationCall(c) ==
  /\ c.m = "build_grammar_error"
  /\ c.rule = 74
  /\ c.a = <<"Usage of slash as cost separate is deprecated (/)">>

\* C18: a SLASH between two components of a cost specification is accepted:
\* no error recovery is entered, the component after it is appended through
\* handle_list, the posting and the transaction are built, and each such
\* SLASH is recorded by exactly one build_grammar_error call carrying the
\* deprecation message, made right before the handle_list call
C18_DeprecatedSeparator ==
  DeprecationText =>
    /\ \A i \in 1..Len(errs) : errs[i].tok = YYEOF
    /\ \A i \in 1..Len(GrammarErrors) :
         IsDeprecationCall(GrammarErrors[i]) \/ GrammarErrors[i].rule = 0
    /\ Len(SelectSeq(calls, IsDeprecationCall)) <= Len(SlashSeparators)
    /\ \A k \in 1..Len(calls) :
         /\ IsDeprecationCall(calls[k]) =>
              /\ calls[k].line = 2
              /\ k > 1 /\ calls[k - 1].m \notin {"build_grammar_error"}
         /\ k > 1 /\ IsDeprecationCall(calls[k - 1]) =>
              /\ calls[k].m = "handle_list" /\ calls[k].rule = 74 /\ calls[k].ok
         /\ calls[k].rule = 74 /\ calls[k].m = "handle_list" =>
              /\ k > 1 /\ IsDeprecationCall(calls[k - 1])
              /\ input[CompPos(calls[k].a[2])] \in {CURRENCY, DATE, STRING_}
              /\ \E i \in 1..Len(SlashSeparators) :
                   /\ SlashSeparators[i] < CompPos(calls[k].a[2])
                   /\ \A j \in (SlashSeparators[i] + 1)..(CompPos(calls[k].a[2]) - 1) :
                        ~ IsCostSeparator(j)
    /\ CostComplete /\ CostClose = RCURL /\ Done =>
         /\ CostBuilt
         /\ CompsAppendedInOrder
         /\ Len(GrammarErrors) = Len(SlashSeparators)
         /\ Len(SelectSeq(calls, IsDeprecationCall)) = Len(SlashSeparators)
         /\ yynerrs = 0

\* C18 happens: two components separated by one SLASH have been read, the
\* one deprecation error recorded and the transaction built
C18_Witness ==
  /\ DeprecationText
  /\ CostComplete
  /\ Accepted
  /\ Len(SlashSeparators) = 1
  /\ NumComps = 2
  /\ Len(GrammarErrors) = 1
  /\ IsDeprecationCall(GrammarErrors[1])
  /\ Len(TransactionCalls) = 1

(***************************************************************************)
(* Balance directives.  A balance call is traced to its line by the        *)
(* position of its DATE token.                                             *)
(***************************************************************************)
\* the line that starts at p is a well-formed balance directive
BalanceAt(p) ==
  /\ p + 2 <= Len(input)
  /\ input[p] = DATE /\ input[p + 1] = BALANCE /\ input[p + 2] = ACCOUNT
  /\ LineEnd(p) > 0
  /\ input[LineEnd(p) - 1] = CURRENCY
  /\ input[LineEnd(p) - 2] = NUMBER

\* the position of the TILDE of the line of p (0: none)
TildePos(p) ==
  IF LineHas(p, TILDE)
  THEN CHOOSE i \in (p + 1)..LineEnd(p) : input[i] = TILDE
  ELSE 0

\* the number written before the TILDE (or the currency), and the one
\* written after the TILDE
FirstNumber(p) == IF input[p + 3] = MINUS THEN Dec(-3, 1) ELSE Dec(1234, 1)
SecondNumber(p) ==
  IF input[TildePos(p) + 2] = ASTERISK THEN Dec(6, 1) ELSE Dec(1, 50)

\* a line of the text lacks the number or the tolerance
MalformedBalance ==
  \E i \in 2..Len(input) :
     input[i] = CURRENCY /\ input[i - 1] \in {TILDE, ACCOUNT}

\* C19: DATE BALANCE ACCOUNT number TILDE number CURRENCY eol calls
\* builder.amount with the first number and the currency and then
\* builder.balance with the date, the account, that amount and the second
\* number as tolerance; without TILDE the tolerance is None
C19_BalanceTolerance ==
  fam = "balance" =>
    /\ \A k \in 1..Len(calls) :
         calls[k].m = "balance" =>
           LET p == calls[k].a[1][3]
               a == calls[k].a
           IN /\ a[1] = <<"tok", DATE, p>>
              /\ BalanceAt(p)
              /\ a[2] = <<"tok", ACCOUNT, p + 2>>
              /\ k > 1 /\ calls[k - 1].m = "amount" /\ calls[k - 1].rule \in {62, 63}
              /\ calls[k - 1].rule = 63 <=> TildePos(p) > 0
              /\ calls[k - 1].a =
                   <<FirstNumber(p), <<"tok", CURRENCY, LineEnd(p) - 1>>>>
              /\ a[3] = ResultOf(calls[k - 1])
              /\ a[4] = (IF TildePos(p) > 0 THEN SecondNumber(p) ELSE None)
              /\ a[5] = None
              /\ calls[k].line =
                   Len(SelectSeq(SubSeq(input, 1, p), LAMBDA c : c = EOL)) + 1
    /\ Len(CallsOf({"amount"})) >= Len(CallsOf({"balance"}))
    /\ ~ MalformedBalance
         => /\ errs = <<>>
            /\ Done => /\ Accepted
                       /\ Len(CallsOf({"balance"}))
                            = Len(SelectSeq(input, LAMBDA c : c = DATE))

\* C19 happens: a balance directive with the tolerance 0.02 has been built
C19_Witness ==
  /\ fam = "balance"
  /\ Accepted
  /\ Len(CallsOf({"balance"})) = 1
  /\ CallsOf({"balance"})[1].a[4] = Dec(1, 50)
  /\ CallsOf({"balance"})[1].a[3] =
       Obj("amount", <<Dec(1234, 1), <<"tok", CURRENCY, 7>>>>)

(***************************************************************************)
(* Metadata lines.  A key_value call is traced to its line by the position *)
(* of its KEY token.                                                       *)
(***************************************************************************)
KeyValueCalls == CallsOf({"key_value"})

\* the token codes written between the KEY at q and the end of its line
ValueCodes(q) == SubSeq(input, q + 1, LineEnd(q) - 1)

\* the codes spell one of the number expressions of the metadata lines
IsNumberCodes(v) == v \in { <<NUMBER>>, <<MINUS, NUMBER>>, <<NUMBER, PLUS, NUMBER>> }

\* the value of the number expression spelled by the codes v
NumberOfCodes(v) ==
  CASE v = <<NUMBER>> -> Dec(2, 1)
    [] v = <<MINUS, NUMBER>> -> Dec(-3, 1)
    [] OTHER -> Dec(5, 1)

\* the codes are a number expression followed by a currency
IsAmountCodes(v) ==
  /\ Len(v) >= 2
  /\ v[Len(v)] = CURRENCY
  /\ IsNumberCodes(SubSeq(v, 1, Len(v) - 1))

\* the values a metadata line may carry: nothing, a string, an account, a
\* date, a currency, a tag, a boolean, a number expression, an amount
AcceptableValue(v) ==
  \/ v = <<>>
  \/ Len(v) = 1 /\ v[1] \in {STRING_, ACCOUNT, DATE, CURRENCY, TAG, BOOL}
  \/ IsNumberCodes(v)
  \/ IsAmountCodes(v)

\* the KEY positions of the complete metadata lines read so far
MetaKeys ==
  { q \in 2..Len(input) :
      input[q] = KEY /\ input[q - 1] = INDENT /\ LineEnd(q) > 0 }

\* the first metadata line whose value is not acceptable (0: none so far)
FirstBadKey ==
  IF \E q \in MetaKeys : ~ AcceptableValue(ValueCodes(q))
  THEN CHOOSE q \in MetaKeys :
         /\ ~ AcceptableValue(ValueCodes(q))
         /\ \A r \in MetaKeys : r < q => AcceptableValue(ValueCodes(r))
  ELSE 0

\* the value builder.key_value must receive for the line of the KEY at q
ExpectedValue(q) ==
  LET v == ValueCodes(q)
  IN CASE v = <<>> -> None
       [] IsNumberCodes(v) -> NumberOfCodes(v)
       [] IsAmountCodes(v) ->
            Obj("amount", <<NumberOfCodes(SubSeq(v, 1, Len(v) - 1)),
                            <<"tok", CURRENCY, LineEnd(q) - 1>>>>)
       [] OTHER -> <<"tok", v[1], q + 1>>

\* C20: INDENT KEY value eol is accepted exactly when the value is a
\* string, an account, a date, a currency, a tag, a boolean, a number
\* expression, an amount, or absent; builder.key_value is then called with
\* the key and the value, None when the value is absent; any other value is
\* a syntax error on that line, reported through build_grammar_error unless
\* the token is LEX_ERROR, and no key_value is built for it
C20_KeyValueValues ==
  fam = "meta" =>
    /\ \A k \in 1..Len(KeyValueCalls) :
         LET a == KeyValueCalls[k].a
             q == a[1][3]
         IN /\ a[1] = <<"tok", KEY, q>>
            /\ q \in MetaKeys
            /\ AcceptableValue(ValueCodes(q))
            /\ a[2] = ExpectedValue(q)
            /\ KeyValueCalls[k].rule = 34
            /\ KeyValueCalls[k].ok
            /\ \A j \in 1..(k - 1) : KeyValueCalls[j].a[1][3] < q
            /\ FirstBadKey > 0 => q < FirstBadKey
    /\ FirstBadKey = 0 /\ Done =>
         /\ errs = <<>>
         /\ Accepted
         /\ Len(KeyValueCalls) = Cardinality(MetaKeys)
    /\ FirstBadKey > 0 /\ (Done \/ Len(input) > LineEnd(FirstBadKey)) =>
         /\ errs # <<>>
         /\ errs[1].kind = "syntax"
         /\ errs[1].pos \in (FirstBadKey + 1)..LineEnd(FirstBadKey)
         /\ errs[1].tok # LEX_ERROR => Len(GrammarErrors) >= 1
    /\ errs # <<>> =>
         \E q \in 2..Len(input) :
            /\ input[q] = KEY
            /\ errs[1].pos > q
            /\ LineEnd(q) = 0 \/ errs[1].pos <= LineEnd(q)
            /\ LineEnd(q) > 0 => ~ AcceptableValue(ValueCodes(q))

\* C20 happens: a metadata line whose value is the amount 2 + 3 of a
\* currency has been built
C20_Witness ==
  /\ fam = "meta"
  /\ Accepted
  /\ \E k \in 1..Len(KeyValueCalls) :
        /\ KeyValueCalls[k].a[2] =
             Obj("amount", <<Dec(5, 1), <<"tok", CURRENCY, 10>>>>)
        /\ ValueCodes(KeyValueCalls[k].a[1][3]) = <<NUMBER, PLUS, NUMBER, CURRENCY>>

\* C20 happens: a metadata line without a value has been built with None
C20_WitnessAbsent ==
  /\ fam = "meta"
  /\ Accepted
  /\ \E k \in 1..Len(KeyValueCalls) :
        /\ KeyValueCalls[k].a[2] = None
        /\ ValueCodes(KeyValueCalls[k].a[1][3]) = <<>>

\* C20 happens: a metadata line whose value is a link has been rejected
C20_WitnessRejected ==
  /\ fam = "meta"
  /\ Done
  /\ FirstBadKey > 0
  /\ ValueCodes(FirstBadKey) = <<LINK>>
  /\ KeyValueCalls = <<>>

(***************************************************************************)
(* Lexer errors.  The lexer reports the error itself and returns           *)
(* LEX_ERROR; no state of the automaton has an action for that token.      *)
(***************************************************************************)
\* the errors met on a LEX_ERROR token
LexErrorAt(i) == errs[i].kind = "syntax" /\ errs[i].tok = LEX_ERROR

\* the calls yyerror made while token number p was the lookahead
ParserReportsAt(p) ==
  SelectSeq(calls, LAMBDA c : /\ c.m = "build_grammar_error"
                              /\ c.rule = 0
                              /\ c.seen = p)

\* C21: when the token that cannot be accepted is LEX_ERROR the parser makes
\* no build_grammar_error call for it; it recovers as from any syntax error:
\* the LEX_ERROR and the tokens after it are discarded up to the first token
\* the declarations state has an action for, which is shifted; and the
\* well-formed open and close directives of later lines are still built
C21_LexErrorAbsorbed ==
  \A i \in 1..Len(errs) :
    LexErrorAt(i) =>
      /\ errs[i].call = 0
      /\ ParserReportsAt(errs[i].pos) = <<>>
      /\ LEX_ERROR \notin ResyncTokens
      /\ \A k \in errs[i].pos..Len(fate) :
           (\A j \in errs[i].pos..(k - 1) : input[j] \notin ResyncTokens) =>
             fate[k] = IF input[k] \in ResyncTokens THEN "S" ELSE "D"
      /\ Accepted /\ nfail = 0 =>
           \A p \in (errs[i].pos + 1)..Len(input) :
             /\ LineStart(p) /\ LineAt(p, OpenLine) /\ NotContinued(p, OpenLine)
                  => BuiltAt("open", p)
             /\ LineStart(p) /\ LineAt(p, CloseLine) /\ NotContinued(p, CloseLine)
                  => BuiltAt("close", p)

\* C21 happens: <open> <DATE LEX_ERROR EOL> <close> has been parsed to the
\* end without any build_grammar_error call, and the close of the third
\* line has been built
C21_Witness ==
  /\ Accepted /\ nfail = 0
  /\ input = Codes(OpenLine \o LexErrorLine \o CloseLine)
  /\ GrammarErrors = <<>>
  /\ \E i \in 1..Len(errs) : LexErrorAt(i) /\ errs[i].pos = Len(OpenLine) + 2
  /\ BuiltAt("close", Len(OpenLine) + Len(LexErrorLine) + 1)

(***************************************************************************)
(* Locations.  The line a construct is reported at is traced through the   *)
(* position of its first token in the source text.                         *)
(***************************************************************************)
\* the builder methods of the directives without a date
UndatedMethods == {"option", "include", "plugin"}

\* the methods that receive the location of what they build
LocatedMethods == EntryMethods \cup UndatedMethods \cup {"posting", "position"}

\* the line of the source text token number p is on
LineOf(p) == Len(SelectSeq(SubSeq(input, 1, p - 1), LAMBDA c : c = EOL)) + 1

\* the first token of the line token number p is on
LineFirst(p) ==
  CHOOSE q \in 1..p : LineStart(q) /\ \A j \in q..(p - 1) : input[j] # EOL

\* the position of the first token of the construct built by call c: the
\* DATE of a dated directive, the keyword before the first STRING of an
\* undated one, the INDENT of a posting, the first token of the number of a
\* position
FirstTokenPos(c) ==
  CASE c.m \in EntryMethods -> c.a[1][3]
    [] c.m \in UndatedMethods -> c.a[1][3] - 1
    [] c.m = "posting" -> LineFirst(c.a[1][3])
    [] OTHER -> LineFirst(c.a[1][3][2][3]) + 2

\* C22: every builder call for a directive, a posting or a position
\* receives the file name and the first line of the first token of the
\* construct plus yy_firstline, also when the construct spans several lines
\* or is reduced on a lookahead token of a later line
C22_LocationOfFirstToken ==
  fam = "dirs" =>
    \A k \in 1..Len(calls) :
      calls[k].m \in LocatedMethods =>
        /\ calls[k].file = yy_filename
        /\ calls[k].file # ""
        /\ calls[k].line = LineOf(FirstTokenPos(calls[k])) + yy_firstline
        /\ calls[k].line >= 1
        /\ input[FirstTokenPos(calls[k])] =
             (CASE calls[k].m \in EntryMethods -> DATE
                [] calls[k].m = "option" -> OPTION
                [] calls[k].m = "include" -> INCLUDE
                [] calls[k].m = "plugin" -> PLUGIN
                [] calls[k].m = "posting" -> INDENT
                [] OTHER -> NUMBER)

\* C22 happens: a transaction has been reported at line 8, its own, when
\* it was built with the DATE of the next line, line 9, as lookahead
C22_Witness ==
  /\ fam = "dirs"
  /\ yy_firstline = 7
  /\ input = Codes(TxnLine \o <<T(DATE)>>)
  /\ yylineno = 2
  /\ \E k \in 1..Len(calls) :
       /\ calls[k].m = "transaction"
       /\ calls[k].line = 8
       /\ calls[k].seen = Len(input)

\* C22 happens: a transaction of two lines has been reported at its first
\* line, and its posting and position at the second
C22_WitnessSpan ==
  /\ fam = "dirs"
  /\ Accepted
  /\ yy_firstline = 7
  /\ input = Codes(TxnLine \o PositionLine)
  /\ \E k \in 1..Len(calls) :
       calls[k].m = "transaction" /\ calls[k].line = 8
  /\ \E k \in 1..Len(calls) :
       calls[k].m = "posting" /\ calls[k].line = 9
  /\ \E k \in 1..Len(calls) :
       calls[k].m = "position" /\ calls[k].line = 9

(***************************************************************************)
(* Error messages.  What a state accepts is read off the tables the way    *)
(* yybackup decides: a token with an action of its own, or any token when  *)
(* the state reduces by default.                                           *)
(***************************************************************************)
\* the symbol numbers of the tokens the lexer can return, and of $end
TokenSymbols == {YYTRANSLATE(c) : c \in LEX_ERROR..KEY} \cup {YYEOF}

\* state s has an action of its own for symbol x: a shift or a reduction
HasAction(s, x) ==
  LET n == yypact(s) + x
  IN /\ ~ yypact_value_is_default(yypact(s))
     /\ 0 <= n /\ n <= YYLAST
     /\ yycheck(n) = x
     /\ ~ yytable_value_is_error(yytable(n))

\* the tokens yybackup does not send to yyerrlab in state s
AcceptedIn(s) ==
  { x \in TokenSymbols : HasAction(s, x) \/ yydefact(s) # 0 }

\* the tokens state s has an action of its own for, by name, in the order
\* of their symbol numbers
ActionNames(s) ==
  LET X == SelectSeq([x \in 1..YYNTOKENS |-> x - 1],
                     LAMBDA x : x \in TokenSymbols /\ HasAction(s, x))
  IN [i \in 1..Len(X) |-> yytname(X[i])]

\* the syntax errors that were reported, and the message of each
Reported(i) == errs[i].kind = "syntax" /\ errs[i].call > 0
MessageOf(i) == calls[errs[i].call].a[1]

\* the names a message lists as expected, as a set
ListedIn(i) == { MessageOf(i)[3][j] : j \in 1..Len(MessageOf(i)[3]) }

\* C23 as stated: every reported message names the unexpected token and
\* lists the tokens the state of the error would have accepted
C23_AsStated ==
  fam = "main" =>
    \A i \in 1..Len(errs) :
      Reported(i) =>
        /\ MessageOf(i)[2] = yytname(YYTRANSLATE(errs[i].tok))
        /\ ListedIn(i) = { yytname(x) : x \in AcceptedIn(errs[i].state) }

\* C23, amended: every reported message names the unexpected token, and it
\* lists the tokens the state of the error would have accepted, in the
\* order of their symbol numbers, when there are at most four of them; when
\* there are five or more it lists none
C23_ListsAtMostFour ==
  fam = "main" =>
    \A i \in 1..Len(errs) :
      Reported(i) =>
        /\ MessageOf(i)[1] = "syntax error"
        /\ MessageOf(i)[2] = yytname(YYTRANSLATE(errs[i].tok))
        /\ MessageOf(i)[3] =
             (IF Len(ActionNames(errs[i].state)) < YYERROR_VERBOSE_ARGS_MAXIMUM
              THEN ActionNames(errs[i].state) ELSE <<>>)
        /\ ListedIn(i) =
             (IF Cardinality(AcceptedIn(errs[i].state)) <= 4
              THEN { yytname(x) : x \in AcceptedIn(errs[i].state) } ELSE {})

\* C23 happens: an error has been reported with a list of expected tokens,
\* all the tokens its state has an action for
C23_Witness ==
  /\ fam = "main"
  /\ Done
  /\ \E i \in 1..Len(errs) :
       /\ Reported(i)
       /\ MessageOf(i)[3] # <<>>
       /\ ListedIn(i) = { yytname(x) : x \in AcceptedIn(errs[i].state) }

\* C23 happens: a token that cannot be a metadata value has been reported
\* without any expected token, the state having more than four
C23_WitnessMany ==
  /\ fam = "main"
  /\ Done
  /\ \E i \in 1..Len(errs) :
       /\ Reported(i)
       /\ Cardinality(AcceptedIn(errs[i].state)) > 4
       /\ MessageOf(i)[3] = <<>>

(***************************************************************************)
(* The dated directives other than open and transaction.                   *)
(***************************************************************************)
\* the directive kinds that are said to be built like open
AnalogousKinds ==
  {"close", "commodity", "pad", "balance", "price", "event", "note",
   "document", "query", "custom"}

\* the kinds among them the grammar has a rule for
GrammarKinds == AnalogousKinds \cap { Method(r) : r \in BuildRules }

\* the keyword that follows the date of a directive of kind m
KeywordOf(m) ==
  CASE m = "close" -> CLOSE [] m = "commodity" -> COMMODITY
    [] m = "pad" -> PAD [] m = "balance" -> BALANCE
    [] m = "price" -> PRICE [] m = "event" -> EVENT
    [] m = "note" -> NOTE [] OTHER -> DOCUMENT

\* a token without a value of its own, as the parser receives it
TokAt(p) == <<"tok", input[p], p>>

\* the amount 2 CURRENCY whose currency is token number p
AmountAt(p) == Obj("amount", <<Dec(2, 1), TokAt(p)>>)

\* the fields of the directive whose DATE is token number p
FieldsAt(p) ==
  CASE input[p + 1] \in {CLOSE, COMMODITY} -> <<TokAt(p + 2)>>
    [] input[p + 1] = BALANCE -> <<TokAt(p + 2), AmountAt(p + 4), None>>
    [] input[p + 1] = PRICE -> <<TokAt(p + 2), AmountAt(p + 4)>>
    [] OTHER -> <<TokAt(p + 2), TokAt(p + 3)>>

\* how many metadata lines follow the EOL at e, one after the other
RECURSIVE NumMeta(_)
NumMeta(e) ==
  IF /\ e + Len(MetaLine) <= Len(input)
     /\ SubSeq(input, e + 1, e + Len(MetaLine)) = Codes(MetaLine)
  THEN 1 + NumMeta(e + Len(MetaLine)) ELSE 0

\* the list built from the k metadata lines that follow the EOL at e
RECURSIVE MetaListAt(_, _)
MetaListAt(e, k) ==
  IF k = 0 THEN None
  ELSE LET q == e + Len(MetaLine) * (k - 1)
       IN Obj("handle_list",
              <<MetaListAt(e, k - 1),
                Obj("key_value", <<TokAt(q + 2), TokAt(q + 3)>>)>>)

\* the calls that build a directive of one of the kinds
KindCalls == CallsOf(GrammarKinds)

\* the kind of the directive whose DATE is token number p ("": none)
KindAt(p) ==
  CASE input[p + 1] = QUERY -> "query"
    [] input[p + 1] = CUSTOM -> "custom"
    [] \E m \in GrammarKinds : input[p + 1] = KeywordOf(m) ->
         CHOOSE m \in GrammarKinds : input[p + 1] = KeywordOf(m)
    [] OTHER -> ""

\* C24 as stated: a directive of any of the ten kinds, followed by
\* metadata lines only, is built by the builder method of its kind, called
\* with the location and the date
C24_AsStated ==
  fam = "dirs" /\ Done =>
    \A p \in 1..(Len(input) - 1) :
      /\ input[p] = DATE
      /\ KindAt(p) \in AnalogousKinds
      /\ \A i \in 1..Len(errs) : errs[i].pos > p
      /\ LineEnd(p) > 0
      /\ LET q == LineEnd(p) + Len(MetaLine) * NumMeta(LineEnd(p)) + 1
         IN q > Len(input) \/ input[q] # INDENT
      => \E k \in 1..Len(calls) :
            /\ calls[k].m = KindAt(p)
            /\ calls[k].a[1] = TokAt(p)
            /\ calls[k].file = yy_filename
            /\ calls[k].line = LineOf(p) + yy_firstline

\* the rules there are behave as said: the builder method of the kind is
\* called with the file, the line of the DATE, the date, the fields of the
\* line and the list of the metadata lines that follow it (None when there
\* are none), once for every directive of a file without errors, and for
\* every directive that is followed by metadata lines only
C24_GrammarKindsBuilt ==
  fam = "dirs" =>
    /\ GrammarKinds = AnalogousKinds \ {"query", "custom"}
    /\ \A k \in 1..Len(KindCalls) :
         LET c == KindCalls[k]
             p == c.a[1][3]
         IN /\ c.a[1] = TokAt(p)
            /\ input[p] = DATE
            /\ input[p + 1] = KeywordOf(c.m)
            /\ c.file = yy_filename
            /\ c.line = LineOf(p) + yy_firstline
            /\ LineEnd(p) > 0
            /\ c.a = <<TokAt(p)>> \o FieldsAt(p)
                       \o <<MetaListAt(LineEnd(p), NumMeta(LineEnd(p)))>>
    /\ Done /\ errs = <<>> =>
         Len(CallsOf(EntryMethods)) = Len(SelectSeq(input, LAMBDA c : c = DATE))
    /\ Done =>
         \A p \in 1..(Len(input) - 1) :
           /\ input[p] = DATE
           /\ KindAt(p) \in GrammarKinds
           /\ \A i \in 1..Len(errs) : errs[i].pos > p
           /\ LineEnd(p) > 0
           /\ LET q == LineEnd(p) + Len(MetaLine) * NumMeta(LineEnd(p)) + 1
              IN q > Len(input) \/ input[q] # INDENT
           => \E k \in 1..Len(KindCalls) :
                 KindCalls[k].m = KindAt(p) /\ KindCalls[k].a[1] = TokAt(p)

\* the query and custom directives are syntax errors at their keyword,
\* which is not a token of the grammar, and nothing is built for them
C24_QueryAndCustomRejected ==
  fam = "dirs" =>
    /\ CallsOf({"query", "custom"}) = <<>>
    /\ \A p \in 2..Len(input) :
         input[p] \in {QUERY, CUSTOM} /\ (Done \/ Len(input) > p) =>
           \E i \in 1..Len(errs) :
              /\ errs[i].pos = p
              /\ errs[i].kind = "syntax"
              /\ YYTRANSLATE(errs[i].tok) = YYUNDEFTOK

\* a note with one metadata line has been built with a list of that line
C24_NoteWithMetadata ==
  /\ fam = "dirs"
  /\ Accepted
  /\ input = Codes(NoteLine \o MetaLine)
  /\ Len(KindCalls) = 1
  /\ KindCalls[1].m = "note"
  /\ KindCalls[1].a[4] # None

(***************************************************************************)
(* The directives without a date: option, include, plugin.                 *)
(***************************************************************************)
UndatedCalls == CallsOf(UndatedMethods)
UndatedKeywords == {OPTION, INCLUDE, PLUGIN}

\* the arguments of the directive whose keyword is token number p
UndatedArgsAt(p) ==
  CASE input[p] = INCLUDE -> <<TokAt(p + 1)>>
    [] input[p + 2] = STRING_ -> <<TokAt(p + 1), TokAt(p + 2)>>
    [] OTHER -> <<TokAt(p + 1), None>>

\* token number p is the INDENT of a metadata line written right under a
\* directive without a date
MetaUnderUndated(p) ==
  /\ 1 < p /\ p + 1 <= Len(input)
  /\ input[p] = INDENT /\ input[p + 1] = KEY
  /\ input[p - 1] = EOL
  /\ input[LineFirst(p - 1)] \in UndatedKeywords

\* C25: PLUGIN STRING eol calls plugin(file, line, name, None), PLUGIN
\* STRING STRING eol calls plugin(file, line, name, config), OPTION STRING
\* STRING eol calls option(file, line, name, value), INCLUDE STRING eol
\* calls include(file, line, filename), as soon as the line has been read;
\* a metadata line under any of them is a syntax error at its KEY and no
\* key_value is built for it
C25_UndatedDirectives ==
  fam = "dirs" =>
    /\ \A k \in 1..Len(UndatedCalls) :
         LET c == UndatedCalls[k]
             p == c.a[1][3] - 1
         IN /\ p >= 1
            /\ LineStart(p)
            /\ input[p] = (CASE c.m = "option" -> OPTION
                             [] c.m = "include" -> INCLUDE
                             [] OTHER -> PLUGIN)
            /\ c.a = UndatedArgsAt(p)
            /\ c.file = yy_filename
            /\ c.line = LineOf(p) + yy_firstline
            /\ c.ok
            /\ c.seen = LineEnd(p)
            /\ \A j \in 1..(k - 1) : UndatedCalls[j].a[1][3] < p
    /\ \A p \in 1..Len(input) :
         /\ LineStart(p) /\ input[p] \in UndatedKeywords
         /\ LineEnd(p) > 0
         /\ Done \/ Len(input) > LineEnd(p)
         => \E k \in 1..Len(UndatedCalls) : UndatedCalls[k].a[1] = TokAt(p + 1)
    /\ \A p \in 1..Len(input) :
         MetaUnderUndated(p) =>
           /\ \A k \in 1..Len(CallsOf({"key_value"})) :
                CallsOf({"key_value"})[k].a[1] # TokAt(p + 1)
           /\ Done \/ Len(input) > p + 1 =>
                \E i \in 1..Len(errs) :
                   /\ errs[i].kind = "syntax"
                   /\ errs[i].pos = p + 1
                   /\ errs[i].tok = KEY

\* C25 happens: a plugin with a configuration and one without have been
\* loaded
C25_Witness ==
  /\ fam = "dirs"
  /\ Accepted
  /\ input = Codes(PluginConfigLine \o PluginLine)
  /\ Len(UndatedCalls) = 2
  /\ UndatedCalls[1].a = <<TokAt(2), TokAt(3)>>
  /\ UndatedCalls[2].a = <<TokAt(6), None>>
  /\ UndatedCalls[2].line = 2 + yy_firstline

\* C25 happens: a metadata line under an option has been rejected
C25_WitnessMeta ==
  /\ fam = "dirs"
  /\ Done
  /\ input = Codes(OptionLine \o MetaLine)
  /\ Len(UndatedCalls) = 1
  /\ UndatedCalls[1].m = "option"
  /\ CallsOf({"key_value"}) = <<>>
  /\ Len(GrammarErrors) = 1

(***************************************************************************)
(* Two parses in parallel.  The parse that is followed was started with    *)
(* the builder, file name and first line of yyparse_start; the other parse *)
(* was started with OtherGlobals.                                          *)
(***************************************************************************)
\* call c was delivered to the builder of the parse that made it, with that
\* parse's file name
OwnCall(c) ==
  /\ c.to # OtherGlobals[3]
  /\ c.file # OtherGlobals[2]

\* call c carries the line of its construct, or of the error it reports,
\* counted from the first line of the parse that made it
OwnLine(c) ==
  /\ c.m \in LocatedMethods => c.line = LineOf(FirstTokenPos(c))
  /\ c.m = "build_grammar_error" =>
       \E i \in 1..Len(errs) : errs[i].call > 0 /\ c.line = errs[i].line

\* C26 as stated: whatever the other parse does, every builder call of this
\* parse goes to its own builder with its own file name and line offset
C26_AsStated ==
  fam = "parallel" =>
    \A k \in 1..Len(calls) : OwnCall(calls[k]) /\ OwnLine(calls[k])

\* as long as the other parse has not stored its globals, every call of
\* this parse is its own
C26_UndisturbedAlone ==
  fam = "parallel" /\ builder # OtherGlobals[3] =>
    \A k \in 1..Len(calls) : OwnCall(calls[k]) /\ OwnLine(calls[k])

\* once the other parse has stored its globals, every later call of this
\* parse goes to the other parse's builder
C26_DisturbedEverAfter ==
  [][fam = "parallel" /\ builder = OtherGlobals[3] /\ Len(calls') > Len(calls)
       => /\ calls'[Len(calls')].to = OtherGlobals[3]
          /\ calls'[Len(calls')].file \in {"", OtherGlobals[2]}]_vars

(***************************************************************************)
(* Arithmetic.  The rules of number_expr are 13 to 20.                     *)
(***************************************************************************)
NumberExprRules == { r \in 1..108 : yytname(yyr1(r)) = "number_expr" }

\* the method and argument places through which a number reaches the
\* builder: amount (also as the number of a balance, rules 62 and 63),
\* compound_amount, key_value, and the tolerance of balance
NumberPlaces ==
  { <<"amount", 1>>, <<"compound_amount", 1>>, <<"compound_amount", 2>>,
    <<"key_value", 2>>, <<"balance", 4>> }

\* C27: no builder call is made by a number_expr rule; a number reaches the
\* builder only as an argument of amount, compound_amount or key_value or
\* as the tolerance of balance; and the one number passed for an expression
\* is its final value, however many operators it has: a price directive
\* makes the same four calls for any expression
C27_ArithmeticInsideReductions ==
  /\ NumberExprRules = 13..20
  /\ \A k \in 1..Len(calls) :
       /\ calls[k].rule \notin NumberExprRules
       /\ calls[k].m # "build_grammar_error" =>
            \A i \in 1..Len(calls[k].a) :
              Tag(calls[k].a[i]) = "num" => <<calls[k].m, i>> \in NumberPlaces
  /\ fam = "expr" =>
       /\ \A k \in 1..Len(calls) :
            calls[k].m # "build_grammar_error" =>
              \A i \in 1..Len(calls[k].a) :
                Tag(calls[k].a[i]) = "num" =>
                  /\ calls[k].m = "amount"
                  /\ SameNumber(calls[k].a[i], Eval(expr))
       /\ Accepted /\ expr[1] # "bad" =>
            [k \in 1..Len(calls) |-> calls[k].m]
              = <<"amount", "price", "handle_list", "store_result">>

\* C27 happens: (1.5 + 2) * 3 has been parsed as the amount of a price
\* directive; builder.amount has received 10.5 and no call has received
\* the intermediate 3.5
C27_Witness ==
  /\ fam = "expr"
  /\ Accepted
  /\ expr = <<"bin", "*", <<"paren", <<"bin", "+", Dec(3, 2), Dec(2, 1)>>>>,
              Dec(3, 1)>>
  /\ Len(calls) = 4
  /\ calls[1].m = "amount"
  /\ calls[1].a[1] = Dec(21, 2)
  /\ \A k \in 1..Len(calls) :
       \A i \in 1..Len(calls[k].a) : calls[k].a[i] # Dec(7, 2)

(***************************************************************************)
(* The line of an error recorded for a failed builder call.                *)
(***************************************************************************)
\* the indices of the reports of failed builder calls
ExceptionReports == { k \in 1..Len(calls) : IsExceptionReport(calls[k]) }

\* C28: the error recorded for a failed builder call carries the file name
\* and the line of the last token the lexer had returned when the rule was
\* reduced, plus yy_firstline; for a transaction that is reduced when the
\* DATE of a later line is read, this is the line of that DATE, which is
\* greater than the line the failed transaction call itself received
C28_FailureStampedAtLexerLine ==
  fam = "fail" =>
    \A k \in ExceptionReports :
      /\ k > 1
      /\ ~ calls[k - 1].ok
      /\ calls[k].seen = calls[k - 1].seen
      /\ calls[k].file = yy_filename
      /\ calls[k].line = LineOf(calls[k].seen) + yy_firstline
      /\ \E i \in 1..Len(errs) :
            /\ errs[i].kind = "builder"
            /\ errs[i].call = k
            /\ calls[k].line = errs[i].line + yy_firstline
      /\ calls[k - 1].m = "transaction" =>
           /\ calls[k - 1].line = LineOf(calls[k - 1].a[1][3]) + yy_firstline
           /\ input[calls[k].seen] = DATE =>
                /\ calls[k].seen > calls[k - 1].a[1][3]
                /\ calls[k].line > calls[k - 1].line

\* C28 happens: the transaction of line 1 has failed when the DATE of line
\* 2 had been read, and the error carries line 2
C28_Witness ==
  /\ fam = "fail"
  /\ input = Codes(TxnLine \o <<T(DATE)>>)
  /\ \E k \in ExceptionReports :
       /\ calls[k - 1].m = "transaction"
       /\ calls[k - 1].line = 1
       /\ calls[k].line = 2

(***************************************************************************)
(* Posting lines after an error inside a transaction.                      *)
(***************************************************************************)
\* the positions of the well-formed posting lines of the text
GoodPostingPositions ==
  { p \in 1..Len(input) :
      LineAt(p, BarePostingLine) \/ LineAt(p, AmountPostingLine) }

\* the position of the first error met (0: none)
FirstErrorPos == IF errs = <<>> THEN 0 ELSE errs[1].pos

\* the well-formed posting lines that start after the first error
LaterPostingPositions ==
  IF errs = <<>> THEN {}
  ELSE { p \in GoodPostingPositions : p > FirstErrorPos }

\* the posting calls made for the posting line at p
PostingCallsAt(p) ==
  { k \in 1..Len(calls) :
      calls[k].m = "posting" /\ calls[k].a[1] = <<"tok", ACCOUNT, p + 1>> }

\* the appends of the posting of the line at p to a list of postings
PostingAppendsAt(p) ==
  { k \in 1..Len(calls) :
      /\ calls[k].m = "handle_list" /\ calls[k].rule = 46
      /\ ItemPos(calls[k]) = p + 1 }

\* the text is a transaction header followed by indented lines
InTransaction ==
  /\ fam = "recover"
  /\ LineAt(1, TxnLine)

\* C29 as stated: after an error inside a transaction, once the text is
\* read to its end, builder.posting has been called for each later
\* well-formed posting line, and the posting is in no list of postings.
C29_AsStated ==
  InTransaction /\ Done =>
    \A p \in LaterPostingPositions :
       /\ PostingCallsAt(p) # {}
       /\ PostingAppendsAt(p) = {}

\* what the parser does instead: a posting line that starts after the error
\* is never reduced; builder.posting is called for the lines before the
\* error only, and an error met before the end of the text leaves no
\* transaction to be built
C29_LaterPostingsNotReduced ==
  InTransaction =>
    /\ \A p \in LaterPostingPositions :
         PostingCallsAt(p) = {} /\ PostingAppendsAt(p) = {}
    /\ errs # <<>> /\ errs[1].tok # YYEOF => TransactionCalls = <<>>

\* each later posting line is itself a syntax error at its account: its
\* INDENT is shifted by the declarations state, where no posting can start
C29_LaterPostingIsAnError ==
  InTransaction /\ Done =>
    \A p \in LaterPostingPositions :
       \E i \in 1..Len(errs) :
          /\ errs[i].kind = "syntax"
          /\ errs[i].pos = p + 1
          /\ errs[i].tok = ACCOUNT

\* a transaction with a broken line followed by a posting line, read to
\* its end
C29_LaterPostingMet ==
  /\ InTransaction /\ Done
  /\ LaterPostingPositions # {}

(***************************************************************************)
(* Error recovery: where the error token is shifted, and what is lost.     *)
(***************************************************************************)
\* the states that shift the error token
ErrorShiftingStates == { s \in 0..(YYNSTATES - 1) : CanShiftError(s) }

\* the state entered by shifting error in the declarations state
ErrorState == yytable(yypact(DeclarationsState) + YYTERROR)

\* the methods that build the directives of the headers read here
HeaderMethods == {"transaction", "open", "commodity", "note"}

\* the first error lies after the header line and before the end of the
\* text: on an indented line that continues the directive
ErrorOnContinuation ==
  /\ fam = "recover"
  /\ errs # <<>>
  /\ \E h \in RecoverHeaders : LineAt(1, h) /\ errs[1].pos > Len(h)
  /\ errs[1].tok # YYEOF

\* the parser is at yyerrlab1 after a failed builder call of rule 105
\* (declarations: declarations entry) or 108 (file: declarations), whose
\* right-hand side, once popped, leaves the initial state alone
TopLevelFailure ==
  /\ errs # <<>>
  /\ errs[Len(errs)].kind = "builder"
  /\ errs[Len(errs)].rule \in {105, 108}

\* the stack at yyerrlab1 has the initial state and the declarations state
\* at its bottom, and the pop loop stops there
PopsToDeclarations ==
  /\ Len(yyss) >= 2
  /\ yyss[1] = 0 /\ yyss[2] = DeclarationsState
  /\ ErrDepth(yyss) = 2

\* the state on top after the shift of error reduces declarations:
\* declarations error (rule 106) by default, without reading a token, and
\* nothing else ever enters that state
ReducesErrorAtOnce ==
  Top = ErrorState /\ pc # "done" =>
    /\ yyss = <<0, DeclarationsState, ErrorState>>
    /\ yypact_value_is_default(yypact(ErrorState))
    /\ yydefact(ErrorState) = 106
    /\ pc \in {"yybackup", "yyreduce"}
    /\ pc = "yyreduce" => yyn = 106

\* when the first error lies on an indented line that continues a dated
\* directive, the method of that directive is never called
DirectiveDropped ==
  ErrorOnContinuation => CallsOf(HeaderMethods) = <<>>

\* C30 as stated: the declarations state is the only state that shifts the
\* error token; every recovery, after a syntax error or after a failed
\* builder call, pops the stack down to the initial state and the
\* declarations state, shifts error and at once reduces declarations:
\* declarations error; a directive with an error on one of its continuation
\* lines is never built.
C30_AsStated ==
  /\ ErrorShiftingStates = {DeclarationsState}
  /\ pc = "yyerrlab1" => PopsToDeclarations
  /\ ReducesErrorAtOnce
  /\ DirectiveDropped

\* what holds: the same, for every recovery but the one that follows a
\* failed call of rule 105 or 108, where the pop loop empties the stack
\* and yyparse aborts
C30_RecoveryButAtTopLevel ==
  /\ ErrorShiftingStates = {DeclarationsState}
  /\ pc = "yyerrlab1" =>
       IF TopLevelFailure THEN yyss = <<0>> /\ ErrDepth(yyss) = 0
       ELSE PopsToDeclarations
  /\ ReducesErrorAtOnce
  /\ DirectiveDropped

\* a step of yyerrlab1 that does not abort leaves the initial state, the
\* declarations state and the state of the error token on the stack,
\* whatever was there, and the next step of the parser reduces rule 106
C30_RecoveryStep ==
  [][ /\ pc = "yyerrlab1" /\ ~ TopLevelFailure =>
           yyss' = <<0, DeclarationsState, ErrorState>>
      /\ Top = ErrorState /\ pc = "yyreduce" =>
           yyss' = <<0, DeclarationsState>>
    ]_vars

\* a transaction with a posting already parsed has met a syntax error on a
\* later indented line, deep in the stack, has recovered, and the text has
\* been read to its end
C30_DroppedAfterSyntaxError ==
  /\ Done
  /\ ErrorOnContinuation
  /\ LineAt(1, TxnLine)
  /\ errs[1].kind = "syntax"
  /\ errs[1].state # DeclarationsState
  /\ PostingCalls # <<>>

\* the same after a failed builder call on a continuation line
C30_DroppedAfterFailure ==
  /\ Done
  /\ ErrorOnContinuation
  /\ errs[1].kind = "builder"
  /\ errs[1].rule \in 30..34

\* the parser about to recover with more on its stack than it will keep
C30_DeepStackPopped ==
  /\ pc = "yyerrlab1"
  /\ fam = "recover"
  /\ Len(yyss) > 4

(***************************************************************************)
(* The recovery counter yyerrstatus.                                       *)
(***************************************************************************)
\* the tokens shifted between the error before errs[j] and errs[j]
ShiftedSincePrevious(j) == errs[j].nshift - errs[j - 1].nshift

\* what yyerrstatus holds n shifted tokens after an error
StatusAfter(n) == IF n >= 3 THEN 0 ELSE 3 - n

\* the build_grammar_error calls made by yyerror for syntax errors
SyntaxReports ==
  SelectSeq(calls, LAMBDA c : c.m = "build_grammar_error" /\ c.rule = 0)

\* C31: every error, a syntax error or a failed builder call, sets
\* yyerrstatus to 3 and each shifted token counts it down to 0; a syntax
\* error is reported through yyerror only when the counter is 0, so a
\* syntax error met less than three shifted tokens after the previous
\* error of either kind makes no build_grammar_error call.
C31_QuietWhileRecovering ==
  /\ yyerrstatus \in 0..3
  /\ errs = <<>> => yyerrstatus = 0
  /\ errs # <<>> /\ pc \in {"yybackup", "yyreduce", "yyerrlab"} =>
       yyerrstatus = StatusAfter(NShift - errs[Len(errs)].nshift)
  /\ \A j \in 1..Len(errs) :
       /\ errs[j].status = (IF j = 1 THEN 0
                            ELSE StatusAfter(ShiftedSincePrevious(j)))
       /\ errs[j].kind = "syntax" /\ errs[j].status > 0 => errs[j].call = 0
       /\ errs[j].kind = "syntax" /\ errs[j].call > 0 =>
            /\ errs[j].status = 0
            /\ calls[errs[j].call].m = "build_grammar_error"
  /\ Len(SyntaxReports) =
       Cardinality({ j \in 1..Len(errs) : errs[j].kind = "syntax"
                                           /\ errs[j].call > 0 })

\* a builder call has failed and a malformed line after it, whose unexpected
\* token came one or two shifted tokens later, has made no call
C31_Witness ==
  /\ Done
  /\ \E j \in 2..Len(errs) :
       /\ errs[j - 1].kind = "builder"
       /\ errs[j].kind = "syntax"
       /\ errs[j].tok \notin {LEX_ERROR, YYEOF}
       /\ errs[j].status \in {1, 2}
       /\ errs[j].call = 0
       /\ errs[j].line > errs[j - 1].line
       /\ SyntaxReports = <<>>

\* a syntax error three or more shifted tokens after the previous error is
\* reported
C31_WitnessReportedAgain ==
  \E j \in 2..Len(errs) :
     /\ errs[j].kind = "syntax" /\ errs[j].call > 0
     /\ ShiftedSincePrevious(j) >= 3

(***************************************************************************)
(* Failed results and the semantic value stack.                            *)
(***************************************************************************)
\* the places of the value stack that hold a failed result
NullPlaces == { i \in 1..Len(yyvs) : Tag(yyvs[i]) = "NULL" }

\* the calls one of whose arguments is a failed result
NullCalls ==
  { k \in 1..Len(calls) :
      /\ calls[k].m # "build_grammar_error"
      /\ \E i \in 1..Len(calls[k].a) : Tag(calls[k].a[i]) = "NULL" }

\* C32 as stated: no failed result is ever on the semantic value stack or
\* among the arguments of a builder call, and no reduction is ever given
\* one: a reduction whose computation fails enters error recovery instead
\* of pushing its result.
C32_AsStated ==
  /\ NullPlaces = {}
  /\ NullCalls = {}
  /\ pc # "crash"

\* what holds of failed builder calls: the failed result of a builder call
\* is never pushed and never passed on, the failure is recorded and the
\* parser goes to error recovery
C32_BuilderFailureNotPushed ==
  fam \in FailFamilies =>
    /\ NullPlaces = {}
    /\ NullCalls = {}
    /\ pc # "crash"
    /\ nfail = Len(SelectSeq(errs, LAMBDA e : e.kind = "builder"))

\* what holds of arithmetic: a failed result on the stack is the quotient
\* of a division, it makes no error record, and no call is ever given it:
\* the next reduction that reads it ends the process
C32_FailedQuotientPushed ==
  fam = "expr" =>
    /\ NullCalls = {}
    /\ NullPlaces # {} => pc # "done"
    /\ pc = "crash" => NullPlaces # {}
    /\ errs = <<>> \/ NullPlaces = {}

\* a failed quotient lies on the value stack with no error recorded
C32_NullOnStack ==
  /\ fam = "expr"
  /\ NullPlaces # {}
  /\ errs = <<>>
  /\ pc = "yybackup"

(***************************************************************************)
(* The references of the children of a rule reduced through BUILDY.  A     *)
(* reference is named by the place of the child that holds it, counted     *)
(* from the top of the stack as in yyvsp[k], and the part of the child:    *)
(* 0 for .pyobj, 1 and 2 for .pairobj.pyobj1 and .pairobj.pyobj2.          *)
(***************************************************************************)
\* the symbols whose semantic value is a PyObject*: the actions read or
\* write their .pyobj
ObjectSymbols ==
  {"BOOL", "DATE", "ACCOUNT", "CURRENCY", "STRING", "NUMBER", "TAG", "LINK",
   "KEY", "number_expr", "txn_fields", "transaction", "posting", "key_value",
   "key_value_value", "posting_or_kv_list", "key_value_list",
   "currency_list", "pushtag", "poptag", "open", "opt_booking", "close",
   "commodity", "pad", "balance", "amount", "maybe_number",
   "compound_amount", "position", "lot_spec", "lot_comp_list", "lot_comp",
   "price", "event", "note", "filename", "document", "entry", "option",
   "include", "plugin", "directive", "declarations", "file"}

\* the symbols whose semantic value is the pair of PyObject*
PairSymbols == {"amount_tolerance"}

\* the symbol of the child at yyvsp[k]
ChildSymbol(k) == yytname(yystos(yyss[Len(yyss) + k]))

\* the references held by the children of rule r, about to be reduced
Held(r) ==
  { <<k, 0>> : k \in { j \in (1 - yyr2(r))..0 : ChildSymbol(j) \in ObjectSymbols } }
  \cup { <<k, p>> : k \in { j \in (1 - yyr2(r))..0 : ChildSymbol(j) \in PairSymbols },
                    p \in {1, 2} }

\* DECREFn(...) of the BUILDY call of rule r: the references it gives to
\* Py_DECREF, in order
Clean(r) ==
  CASE r \in {21, 108} -> <<>>
    [] r \in {50, 68, 72} -> << <<0, 0>> >>
    [] r \in {25, 33, 52, 53, 70, 94, 95} -> << <<-1, 0>> >>
    [] r \in {22, 23, 24, 45, 46, 48, 61, 62, 66, 69, 105} ->
         << <<-1, 0>>, <<0, 0>> >>
    [] r \in {30, 34, 93, 96} -> << <<-2, 0>>, <<-1, 0>> >>
    [] r \in {51, 73, 74} -> << <<-2, 0>>, <<0, 0>> >>
    [] r = 63 -> << <<-3, 0>>, <<0, 0>> >>
    [] r = 67 -> << <<-3, 0>>, <<-1, 0>>, <<0, 0>> >>
    [] r \in {31, 32} -> << <<-4, 0>>, <<-3, 0>>, <<-1, 0>> >>
    [] r \in {26, 57, 58} -> << <<-4, 0>>, <<-2, 0>>, <<0, 0>> >>
    [] r \in {59, 78, 79, 80, 82} ->
         << <<-5, 0>>, <<-3, 0>>, <<-2, 0>>, <<0, 0>> >>
    [] r = 60 -> << <<-5, 0>>, <<-3, 0>>, <<0, 0>>, <<-2, 1>>, <<-2, 2>> >>
    [] r = 54 -> << <<-6, 0>>, <<-4, 0>>, <<-3, 0>>, <<-2, 0>>, <<0, 0>> >>
    [] OTHER -> <<>>

\* the references the action of rule r stores in its result once BUILDY
\* has succeeded: rule 63 keeps the tolerance as pyobj2
Kept(r) == IF r = 63 THEN { <<-1, 0>> } ELSE {}

\* how many times Clean(r) releases the reference x
TimesReleased(r, x) ==
  Cardinality({ i \in 1..Len(Clean(r)) : Clean(r)[i] = x })

\* the references of the children that are neither released nor kept when
\* the builder call of rule r has the outcome ok
Unreleased(r, ok) ==
  { x \in Held(r) : TimesReleased(r, x) = 0 /\ ~ (ok /\ x \in Kept(r)) }

\* the references released more than once, or released and kept, or
\* released without being held
Overreleased(r, ok) ==
  { x \in Held(r) : \/ TimesReleased(r, x) > 1
                    \/ TimesReleased(r, x) = 1 /\ ok /\ x \in Kept(r) }
  \cup { Clean(r)[i] : i \in { j \in 1..Len(Clean(r)) : Clean(r)[j] \notin Held(r) } }

\* a rule with a BUILDY call is about to be reduced
AtBuildy == pc = "yyreduce" /\ yyn \in BuildRules /\ ~ Crashes(yyn)

\* C33 as stated: whenever a rule with a BUILDY call is reduced, whether
\* the builder call succeeds or fails, every reference held by the children
\* of the rule is released exactly once: none is left unreleased and none
\* is released twice.
C33_AsStated ==
  AtBuildy =>
    \A ok \in BuilderOutcomes(yyn) :
       Unreleased(yyn, ok) = {} /\ Overreleased(yyn, ok) = {}

\* what holds: no reference is ever released twice; and every reference is
\* released (or kept in the result) but the tolerance of rule 63 when the
\* call fails and the declarations of rule 108, whatever the outcome
C33_ReleasedButTwo ==
  AtBuildy =>
    \A ok \in BuilderOutcomes(yyn) :
       /\ Overreleased(yyn, ok) = {}
       /\ Unreleased(yyn, ok) =
            (IF yyn = 63 /\ ~ ok THEN { <<-1, 0>> }
             ELSE IF yyn = 108 THEN { <<0, 0>> }
             ELSE {})

\* the amount of a balance directive with a tolerance has failed to build:
\* the tolerance is popped with no release
C33_ToleranceLeft ==
  /\ pc = "yyerrlab1"
  /\ errs # <<>>
  /\ errs[Len(errs)].kind = "builder"
  /\ errs[Len(errs)].rule = 63

(***************************************************************************)
(* The declarations value across directives and errors.                    *)
(***************************************************************************)
\* the rules declarations: declarations directive and declarations: declarations error
KeepingRules == {104, 106}

\* the value of declarations on the stack, above the initial state
Accumulated == yyvs[2]

\* the result of the last successful handle_list call of rule 105 (None
\* before the first)
LastAppended ==
  LET A == SelectSeq(EntryAppends, LAMBDA c : c.ok)
  IN IF A = <<>> THEN None ELSE ResultOf(A[Len(A)])

\* the number of errors recovered from since the last successful append
ErrorsSinceAppend ==
  LET A == { k \in 1..Len(calls) :
               calls[k].m = "handle_list" /\ calls[k].rule = 105 /\ calls[k].ok }
  IN Cardinality({ i \in 1..Len(errs) :
                     \A k \in A : calls[k].seen <= errs[i].pos })

\* the value of declarations is the result of the last append, however many
\* directives and errors have been reduced since
AccumulatedIsLastAppended ==
  Len(yyss) >= 2 /\ yyss[2] = DeclarationsState => Accumulated = LastAppended

\* a reduction of rule 104 or 106 pops the directive or the error token,
\* leaves the declarations value below it as it was and makes no call
KeepingStep ==
  pc = "yyreduce" /\ yyn \in KeepingRules =>
    /\ yyss' = <<0, DeclarationsState>>
    /\ yyvs' = SubSeq(yyvs, 1, 2)
    /\ calls' = calls

\* C34: reducing declarations: declarations directive (a SKIPPED token, an
\* empty line, pushtag, poptag, option, include, plugin) or declarations:
\* declarations error leaves the accumulated declarations value unchanged
\* and makes no handle_list call; the value is the result of the last
\* append whatever the number of error reductions since.
C34_DeclarationsKept ==
  [] AccumulatedIsLastAppended /\ [][KeepingStep]_vars

\* an entry has been appended, an option, include or plugin directive has
\* been reduced after it, and store_result has been given the list with
\* that entry
C34_Witness ==
  /\ Accepted
  /\ Tag(LastAppended) # "None"
  /\ \E k \in 1..Len(calls) :
       /\ calls[k].rule \in 93..96
       /\ \E j \in 1..(k - 1) : calls[j].m = "handle_list" /\ calls[j].rule = 105
  /\ calls[Len(calls)].m = "store_result"
  /\ calls[Len(calls)].a = <<LastAppended>>

\* two errors in a row after an entry leave the list as one error or none
\* would
C34_WitnessTwoErrors ==
  /\ Accepted
  /\ Tag(LastAppended) # "None"
  /\ ErrorsSinceAppend >= 2
  /\ calls[Len(calls)].m = "store_result"
  /\ calls[Len(calls)].a = <<LastAppended>>

(***************************************************************************)
(* Deeply nested number expressions: a price directive whose number is     *)
(* nested DeepNest times in LPAREN, unary MINUS or unary PLUS              *)
(* (grammar.c 1441-1508 yysetstate, 2490-2498 yyexhaustedlab).             *)
(***************************************************************************)
DeepMargin == 1
DeepTokens == {LPAREN, MINUS, PLUS}

DeepHeader == <<T(DATE), T(PRICE), T(CURRENCY)>>
Repeat(x, n) == [i \in 1..n |-> x]
DeepTail(c, n) ==
  <<N(2, 1)>> \o (IF c = LPAREN THEN Repeat(T(RPAREN), n) ELSE <<>>)
  \o <<T(CURRENCY), T(EOL)>>
DeepLine(c, n) == DeepHeader \o Repeat(T(c), n) \o DeepTail(c, n)

\* the same line with the number left out
BrokenDeepLine(c, n) == DeepHeader \o Repeat(T(c), n) \o <<T(EOL)>>

\* the state yybackup shifts token c to from state s
ShiftTarget(s, c) == yytable(yypact(s) + YYTRANSLATE(c))

\* the stack size yysetstate has reached once the stacks held d entries
RECURSIVE SizeFrom(_, _)
SizeFrom(size, d) ==
  IF d < size \/ YYMAXDEPTH <= size THEN size
  ELSE SizeFrom(Min(2 * size, YYMAXDEPTH), d)
SizeFor(d) == SizeFrom(YYINITDEPTH, d)

\* the sizes the stacks can have
RECURSIVE SizesFrom(_)
SizesFrom(size) ==
  IF YYMAXDEPTH <= size THEN {size}
  ELSE {size} \cup SizesFrom(Min(2 * size, YYMAXDEPTH))
StackSizes == SizesFrom(YYINITDEPTH)
\* the largest size below YYMAXDEPTH
LastDoubling == CHOOSE s \in StackSizes \ {YYMAXDEPTH} :
                  \A t \in StackSizes \ {YYMAXDEPTH} : t <= s

\* the parser after DeepLine(c, n) has been read up to its k-th nesting token,
\* that token shifted and no lookahead read
Nested(c, n, k) ==
  LET s1 == ShiftTarget(DeclarationsState, DATE)
      s2 == ShiftTarget(s1, PRICE)
      s3 == ShiftTarget(s2, CURRENCY)
      s4 == ShiftTarget(s3, c)
      m == k + 3
  IN /\ yyss = <<0, DeclarationsState, s1, s2, s3>> \o Repeat(s4, k)
     /\ yyvs = <<Undef, None, LexVal(T(DATE), 1), LexVal(T(PRICE), 2),
                 LexVal(T(CURRENCY), 3)>>
               \o [i \in 1..k |-> LexVal(T(c), i + 3)]
     /\ yyls = Repeat(<<1, 1>>, m + 2)
     /\ yystacksize = SizeFor(m + 2)
     /\ yychar = YYEMPTY
     /\ yylval = LexVal(T(c), m)
     /\ yylloc = <<1, 1>>
     /\ yyerrstatus = 0
     /\ yynerrs = 0
     /\ yyn = 0
     /\ yyerror_range1 = <<0, 0>>
     /\ pc = "yybackup"
     /\ yyresult = -1
     /\ yylineno = 1
     /\ calls = <<>>
     /\ nfail = 0
     /\ input = <<DATE, PRICE, CURRENCY>> \o Repeat(c, k)
     /\ fate = Repeat("S", m)
     /\ errs = <<>>
     /\ rest = Repeat(T(c), n - k) \o DeepTail(c, n)

\* nesting depths on both sides of the first growth of the stacks, read from
\* the first token
ShallowNests ==
  (YYINITDEPTH - 6 - DeepMargin)..(YYINITDEPTH - 6 + DeepMargin)
\* nesting depths that exhaust the stacks
ExhaustingNests == (YYMAXDEPTH - 6)..(YYMAXDEPTH - 6 + DeepMargin)
\* the deepest nesting the stacks hold
DeepestNest(c) == IF c = LPAREN THEN YYMAXDEPTH - 8 ELSE YYMAXDEPTH - 7
\* the tokens already shifted when the deep runs start
DeepLead == 1

InitDeep ==
  /\ fam = "deep"
  /\ EditorIdle
  /\ budget = 0
  /\ yy_firstline = 0
  /\ yy_filename = "a.beancount"
  /\ builder = "a"
  /\ \E c \in DeepTokens :
       \/ \E n \in ShallowNests :
            /\ yyparse_locals
            /\ \/ expr = <<"deep", c, n>> /\ rest = DeepLine(c, n)
               \/ expr = <<"broken", c, n>> /\ rest = BrokenDeepLine(c, n)
       \/ \E n \in ExhaustingNests \cup {YYMAXDEPTH - 7} :
            /\ n > DeepestNest(c)
            /\ expr = <<"deep", c, n>>
            /\ Nested(c, n, YYMAXDEPTH - 5 - DeepLead)
       \/ /\ c = MINUS
          /\ expr = <<"deep", c, DeepestNest(c)>>
          /\ Nested(c, DeepestNest(c), LastDoubling - 5 - DeepLead)

SpecDeep == InitDeep /\ [][Next]_vars

\* yyexhaustedlab has been reached
Exhausted == pc = "done" /\ yyresult = 2
MethodsCalled == [i \in 1..Len(calls) |-> calls[i].m]
\* the value of the number nested n times in token c
NestedNumber(c, n) ==
  IF c = MINUS /\ n % 2 = 1 THEN PyNumber_Negative(Dec(2, 1)) ELSE Dec(2, 1)

\* C35: the stacks start at YYINITDEPTH entries and are doubled, up to
\* YYMAXDEPTH, only when they are full; a push that fills stacks of YYMAXDEPTH
\* entries ends the parse at yyexhaustedlab, which reports 'memory exhausted'
\* through build_grammar_error and returns 2 without store_result having been
\* called; a number nested less deeply than that is parsed as it is at any
\* depth
C35_StacksDoubleUpToMaxDepth ==
  /\ yystacksize \in StackSizes
  /\ Len(yyss) <= yystacksize
  /\ yystacksize <= SizeFor(Len(input) + 2)
  /\ pc # "done" => Len(yyss) < yystacksize
  /\ Exhausted <=> (pc = "done" /\ Len(yyss) = YYMAXDEPTH)
  /\ Exhausted =>
       /\ calls # <<>>
       /\ Last(calls).m = "build_grammar_error"
       /\ Last(calls).a[1][1] = "memory exhausted"
       /\ CallsOf({"store_result"}) = <<>>
  /\ fam = "deep" /\ Done /\ expr[1] = "deep" =>
       IF expr[3] > DeepestNest(expr[2]) THEN Exhausted
       ELSE /\ yyresult = 0
            /\ errs = <<>>
            /\ MethodsCalled = <<"amount", "price", "handle_list", "store_result">>
            /\ calls[1].a[1] = NestedNumber(expr[2], expr[3])
            /\ \A i \in 1..Len(calls) : calls[i].ok
  /\ fam = "deep" /\ Done /\ expr[1] = "broken" =>
       /\ yyresult = 0
       /\ Len(errs) = 1
       /\ MethodsCalled = <<"build_grammar_error", "store_result">>

\* a text nested too deeply has exhausted the stacks
C35_Witness ==
  /\ Exhausted
  /\ yystacksize = YYMAXDEPTH
  /\ Len(yyss) = YYMAXDEPTH
  /\ expr[2] = LPAREN

\* the stacks have been enlarged for the last time and the parse goes on
C35_WitnessLastGrowth ==
  /\ pc = "yybackup"
  /\ Len(yyss) = LastDoubling
  /\ yystacksize = YYMAXDEPTH

\* the deepest nesting the stacks hold has been parsed
C35_WitnessDeepest ==
  /\ Accepted
  /\ expr = <<"deep", MINUS, YYMAXDEPTH - 7>>

\* while the nesting tokens of a line are read, the parser is in the state
\* the deep runs start from
C35_NestedShape ==
  (/\ fam = "deep"
   /\ expr[1] = "deep"
   /\ pc = "yybackup"
   /\ yychar = YYEMPTY
   /\ Len(input) > 3
   /\ Last(input) = expr[2])
  => Nested(expr[2], expr[3], Len(input) - 3)

\* a line nested about YYINITDEPTH deep has been read from its first token up
\* to its last nesting token
C35_NestedShapeMet ==
  /\ expr[1] = "deep"
  /\ expr[3] \in ShallowNests
  /\ pc = "yybackup"
  /\ yychar = YYEMPTY
  /\ Len(input) = expr[3] + 3

(***************************************************************************)
(* Termination of yyparse (grammar.c 1341-1343, 1520-1590 yybackup,        *)
(* 2380-2473 yyerrlab / yyerrlab1, 2479-2528 yyreturn).                    *)
(***************************************************************************)
\* yyparse has returned 0 (accept), 1 (abort) or 2 (memory exhausted)
Returned == pc = "done" /\ yyresult \in {0, 1, 2}

\* the action of a number rule has read a null pointer: the run has ended
\* without a return value
NullRead == pc = "crash"

\* C36 (as stated): at every moment yyparse either has another step to take
\* or has returned 0, 1 or 2
C36_AsStated == Returned \/ ENABLED Next

\* the same with the null read of the number rules set apart
C36_StepsOrReturnsUnlessNull == Returned \/ NullRead \/ ENABLED Next

\* a null pointer is read only by a reduction of a number rule or of a rule
\* that is given the number
C36_NullOnlyInNumbers ==
  NullRead => yyn \in NumberExprRules \cup BuildRules /\ NullPlaces # {}

\* yyparse run to its end: the parser is never suspended between two steps
SpecFair == Init /\ [][Next]_vars /\ WF_vars(Next)
SpecFailFair == InitFail /\ [][Next]_vars /\ WF_vars(Next)
SpecExprFair == InitExpr /\ [][Next]_vars /\ WF_vars(Next)
SpecRecoverFair == InitRecover /\ [][Next]_vars /\ WF_vars(Next)

\* every run ends: it returns or it reads a null pointer
C36_Ends == <>(Returned \/ NullRead)

\* an error met before three tokens were shifted since the last one discards
\* the lookahead, or aborts at the end of the input: recovery consumes input
C36_RecoveryConsumes ==
  [][pc = "yyerrlab" /\ yyerrstatus = 3 =>
       \/ fate' = Append(fate, "D") /\ yychar' = YYEMPTY
       \/ pc' = "done" /\ yyresult' = 1 /\ yychar = YYEOF]_vars

\* a number rule has read the null pointer a division by zero left
C36_NullWasRead == NullRead /\ yyn \in NumberExprRules \cup BuildRules

\* an error has been met while recovering and its token discarded
C36_Discarded ==
  /\ Len(errs) >= 2
  /\ errs[Len(errs)].status = 3
  /\ fate # <<>>
  /\ Last(fate) = "D"

(***************************************************************************)
(* The token codes of grammar.h (43-87) against those of grammar.c         *)
(* (182-248, yytranslate 560-593).                                         *)
(***************************************************************************)
\* the token codes the parser knows and their names
ParserCodes == LEX_ERROR..YYMAXUTOK
ParserNames == { yytname(YYTRANSLATE(k)) : k \in ParserCodes }
ParserCode(nm) == CHOOSE k \in ParserCodes : yytname(YYTRANSLATE(k)) = nm
\* the kind the parser takes a token code for
TakenFor(code) == yytname(YYTRANSLATE(code))

DeclaredInHeader == { HeaderNames[i] : i \in 1..Len(HeaderNames) }
DeclaredInBoth == ParserNames \cap DeclaredInHeader
CodesAgree == \A nm \in DeclaredInBoth : HeaderCode(nm) = ParserCode(nm)
ParserTokensDeclared == ParserNames \subseteq DeclaredInHeader

\* C37 (as stated): every token name declared in both enumerations has the
\* same code in both, every token kind of the parser is declared in the
\* header, and every token a lexer compiled against grammar.h has returned is
\* taken by yyparse for the kind the lexer meant
C37_AsStated ==
  /\ \A i \in 1..Len(input) : TakenFor(input[i]) = HeaderName(input[i])
  /\ CodesAgree
  /\ ParserTokensDeclared

\* the names on which the two enumerations agree: those up to COMMA
AgreeingNames == { nm \in DeclaredInBoth : HeaderCode(nm) = ParserCode(nm) }
\* the token kinds of the parser the header does not declare
UndeclaredNames == ParserNames \ DeclaredInHeader

\* what does hold: the enumerations agree from INDENT to COMMA and on no
\* later name, the header lacks eleven token kinds of the parser, and a token
\* of the lexer is taken for its kind exactly when its code is at most COMMA
C37_AgreeUpToComma ==
  /\ AgreeingNames = { nm \in DeclaredInBoth : ParserCode(nm) <= COMMA }
  /\ AgreeingNames = { HeaderNames[i] : i \in 2..14 }
  /\ UndeclaredNames =
       { "LEX_ERROR", "TILDE", "HASH", "ASTERISK", "MINUS", "LPAREN",
         "RPAREN", "COMMODITY", "INCLUDE", "BOOL", "NEGATIVE" }
  /\ DeclaredInHeader \ ParserNames = { "ERROR" }
  /\ \A i \in 1..Len(input) :
       (TakenFor(input[i]) = HeaderName(input[i])) <=> (input[i] \in INDENT..COMMA)

\* the enumeration of grammar.c is the one yytranslate implements
C37_EnumIsTranslate ==
  /\ ParserCode("DATE") = DATE /\ ParserCode("PRICE") = PRICE
  /\ ParserCode("SLASH") = SLASH /\ ParserCode("NUMBER") = NUMBER
  /\ ParserCode("STRING") = STRING_ /\ ParserCode("KEY") = KEY
  /\ ParserCode("NEGATIVE") = YYMAXUTOK /\ ParserCode("LEX_ERROR") = LEX_ERROR
  /\ Len(input) >= 0

\* the lexer has returned DATE and the parser has taken it for PRICE
C37_Misread ==
  /\ input # <<>>
  /\ HeaderName(input[1]) = "DATE"
  /\ TakenFor(input[1]) = "PRICE"
  /\ errs # <<>>

(***************************************************************************)
(* The editor support: beancount-hash-keys and beancount-get-accounts      *)
(* (beancount.el 114-131).  Strings are sequences of character codes.      *)
(***************************************************************************)
\* "Assets:AB", "Assets:Ab", "Assets:Abc", "Equity:Ab"
AssetsAB == <<65, 115, 115, 101, 116, 115, 58, 65, 66>>
AssetsAb == <<65, 115, 115, 101, 116, 115, 58, 65, 98>>
AssetsAbc == <<65, 115, 115, 101, 116, 115, 58, 65, 98, 99>>
EquityAb == <<69, 113, 117, 105, 116, 121, 58, 65, 98>>
AccountNames == {AssetsAB, AssetsAb, AssetsAbc, EquityAb}

\* the matches of the regexp in a buffer: up to MaxMatches of them
MaxMatches == 3
Buffers == UNION { [1..n -> AccountNames] : n \in 0..MaxMatches }

\* string<: the order of the character codes, a proper prefix first
RECURSIVE StringLess(_, _)
StringLess(a, b) ==
  IF b = <<>> THEN FALSE
  ELSE IF a = <<>> THEN TRUE
  ELSE IF Head(a) # Head(b) THEN Head(a) < Head(b)
  ELSE StringLess(Tail(a), Tail(b))

\* (puthash key nil table) with :test 'equal
puthash(key, table) ==
  IF \E i \in 1..Len(table) : table[i] = key THEN table
  ELSE Append(table, key)

\* (sort list 'string<): a stable sort
RECURSIVE SortInsert(_, _)
SortInsert(x, sorted) ==
  IF sorted = <<>> THEN <<x>>
  ELSE IF StringLess(x, Head(sorted)) THEN <<x>> \o sorted
  ELSE <<Head(sorted)>> \o SortInsert(x, Tail(sorted))
RECURSIVE SortStrings(_)
SortStrings(list) ==
  IF list = <<>> THEN <<>>
  ELSE SortInsert(Last(list), SortStrings(Front(list, 1)))

parserAll == <<parserVars, lexVars, globalVars, fam, expr, calls, nfail, fate,
               errs>>

\* (while (re-search-forward beancount-account-regexp nil t)
\*   (puthash (match-string-no-properties 0) nil accounts))
re_search_forward ==
  /\ elpc = "while"
  /\ point < Len(buffer)
  /\ point' = point + 1
  /\ accounts' = puthash(buffer[point + 1], accounts)
  /\ UNCHANGED <<buffer, rlist, elresult, elpc, parserAll>>

\* the search fails, the loop ends and beancount-hash-keys is called:
\* (let (rlist) ...
beancount_hash_keys ==
  /\ elpc = "while"
  /\ point = Len(buffer)
  /\ rlist' = <<>>
  /\ elpc' = "maphash"
  /\ UNCHANGED <<buffer, point, accounts, elresult, parserAll>>

Keys == { accounts[i] : i \in 1..Len(accounts) }
Listed == { rlist[i] : i \in 1..Len(rlist) }

\* (maphash (lambda (k v) (push k rlist)) hashtable): the keys are visited
\* once each, in an order the hash table chooses
maphash ==
  /\ elpc = "maphash"
  /\ \E k \in Keys \ Listed : rlist' = <<k>> \o rlist
  /\ UNCHANGED <<buffer, point, accounts, elresult, elpc, parserAll>>

\* ... rlist)): beancount-hash-keys returns
hash_keys_return ==
  /\ elpc = "maphash"
  /\ Keys = Listed
  /\ elpc' = "sort"
  /\ UNCHANGED <<buffer, point, accounts, rlist, elresult, parserAll>>

\* (sort (beancount-hash-keys accounts) 'string<)
sort ==
  /\ elpc = "sort"
  /\ elresult' = SortStrings(rlist)
  /\ elpc' = "done"
  /\ UNCHANGED <<buffer, point, accounts, rlist, parserAll>>

NextEditor ==
  re_search_forward \/ beancount_hash_keys \/ maphash \/ hash_keys_return
  \/ sort

\* beancount-get-accounts is called in a buffer; the parser is not running
InitEditor ==
  /\ yyparse_locals
  /\ yy_firstline = 0
  /\ yy_filename = "a.beancount"
  /\ builder = "a"
  /\ fam = "editor"
  /\ expr = None
  /\ rest = <<>>
  /\ budget = 0
  /\ buffer \in Buffers
  /\ point = 0
  /\ accounts = <<>>
  /\ rlist = <<>>
  /\ elresult = <<>>
  /\ elpc = "while"

SpecEditor == InitEditor /\ [][NextEditor]_vars

\* each string of a list is string< the next
Ascending(list) ==
  \A i \in 1..(Len(list) - 1) : StringLess(list[i], list[i + 1])
Matched == { buffer[i] : i \in 1..Len(buffer) }
Elements(list) == { list[i] : i \in 1..Len(list) }

\* C38 (as stated): the list beancount-hash-keys returns is sorted, and the
\* list beancount-get-accounts returns holds every account name matched in the
\* buffer once, in ascending order
C38_AsStated ==
  /\ elpc = "sort" => Ascending(rlist) /\ Elements(rlist) = Keys
  /\ elpc = "done" => Ascending(elresult) /\ Elements(elresult) = Matched

\* what does hold: beancount-hash-keys returns every key once, in some order,
\* and beancount-get-accounts, which sorts that list, returns every matched
\* name once in ascending order
C38_SortedByGetAccounts ==
  /\ elpc \in {"sort", "done"} =>
       /\ Elements(rlist) = Keys
       /\ Len(rlist) = Cardinality(Keys)
       /\ Keys = Matched
  /\ elpc = "done" =>
       /\ Ascending(elresult)
       /\ Elements(elresult) = Matched
       /\ Len(elresult) = Cardinality(Matched)

\* beancount-hash-keys has returned a list that is not sorted
C38_KeysUnsorted ==
  /\ elpc = "sort"
  /\ ~ Ascending(rlist)
  /\ rlist = <<AssetsAb, AssetsAB>>
  /\ accounts = <<AssetsAB, AssetsAb>>

\* beancount-get-accounts has returned; a name occurred twice in the buffer
C38_Returned ==
  /\ elpc = "done"
  /\ Len(buffer) > Len(elresult)
  /\ Len(elresult) > 1
====
